---- MODULE Spec2Model ----
(***************************************************************************)
(* A model of the retrieval-augmented QA chatbot:                          *)
(*   src/src/qa_chain_manager.py      QAChainManager (the QA orchestrator) *)
(*   src/src/vector_store_manager.py  VectorStoreManager (the Vector Index)*)
(* Each public method is one action.  The calls the methods make into the  *)
(* LangChain / Chroma libraries are modelled by what the libraries do      *)
(* there; the external providers (embedding, chat completion, the          *)
(* persistent store) answer or fail nondeterministically.                  *)
(***************************************************************************)
EXTENDS Integers, Sequences, FiniteSets, TLC

(* ------------------------------ bounds -------------------------------- *)

\* number of distinct documents (chunks) of the run
MaxDocs == 2
\* longest batch handed to one add_documents call
MaxBatch == 2
\* number of record ids the index hands out over a run
MaxIds == 3
\* largest memory_window a QAChainManager is constructed with
MaxWindow == 2
\* largest number of turns held in conversation_history
MaxHistory == 3
\* longest text of a file handed to the text splitter
MaxTextLen == 5
\* largest chunk_size a DocumentLoader is constructed with
MaxChunkSize == 3
\* longest list of paths handed to load_multiple_files
MaxPaths == 2
\* largest number of entries in a conversation history of the application
MaxAsked == 2

(* -------------------------- program constants ------------------------- *)

\* qa_chain_manager.py:178  doc.page_content[:300]
PreviewLen == 300
\* vector_store_manager.py:268  default_search_kwargs = {"k": 4}
RetrieverK == 4
\* qa_chain_manager.py:38  temperature: float = 0.1, counted in tenths
DefaultTemperature == 1
\* qa_chain_manager.py:39  max_tokens: int = 1000
DefaultMaxTokens == 1000
\* document_loader.py:33  chunk_size: int = 1000, chunk_overlap: int = 200
DefaultChunkSize == 1000
DefaultChunkOverlap == 200

(* ------------------------------- texts -------------------------------- *)

\* A text is a sequence of one-character strings.
Whitespace == {" ", "\n"}

RECURSIVE SeqsUpTo(_, _)
SeqsUpTo(S, n) ==
    IF n = 0 THEN {<<>>}
    ELSE LET shorter == SeqsUpTo(S, n - 1)
         IN shorter \cup {Append(s, c) : s \in {t \in shorter : Len(t) = n - 1}, c \in S}

\* the question strings passed to ask_question: the empty one, one of
\* whitespace only, a plain one and one with whitespace around it
Questions == {<<>>, <<" ">>, <<"a">>, <<" ", "a", " ">>}

RECURSIVE LStrip(_)
LStrip(s) ==
    IF s # <<>> /\ Head(s) \in Whitespace THEN LStrip(Tail(s)) ELSE s

RECURSIVE RStrip(_)
RStrip(s) ==
    IF s # <<>> /\ s[Len(s)] \in Whitespace
    THEN RStrip(SubSeq(s, 1, Len(s) - 1))
    ELSE s

\* str.strip(): leading and trailing whitespace removed
Strip(s) == RStrip(LStrip(s))

\* Python's s[:n]
Prefix(s, n) == SubSeq(s, 1, IF Len(s) < n THEN Len(s) ELSE n)

\* Python's s[-n:] for n > 0
LastN(s, n) == IF Len(s) <= n THEN s ELSE SubSeq(s, Len(s) - n + 1, Len(s))

Min(a, b) == IF a < b THEN a ELSE b

(* ----------------------------- documents ------------------------------ *)

\* The documents (chunks) of the run are numbered 1..MaxDocs; their texts
\* have lengths just above, at and below the preview length.
Docs == 1..MaxDocs

DocLen(d) == PreviewLen + 2 - d

Letters == <<"a", "b", "c">>

DocText(d) == [i \in 1..DocLen(d) |-> Letters[((i + d) % 3) + 1]]

\* metadata as a set of <<key, value>> pairs; every second document has none
DocMetadata(d) == IF d % 2 = 1 THEN {<<"file_name", d>>} ELSE {}

\* langchain.schema.Document
Document(d) == [page_content |-> DocText(d), metadata |-> DocMetadata(d)]

(* ------------------------------ failures ------------------------------ *)

\* what the Chat Completion Provider raises when it fails
ChatErrors == {"timeout", "rate_limit", "malformed_response"}

\* what the embedding provider / index raises when retrieval fails
RetrievalErrors == {"embedding_error"}

NoError == "none"

\* the texts the Chat Completion Provider may generate
Answers == {<<"A1">>}

(* ------------------------------- state -------------------------------- *)

VARIABLES
    \* the persistent store: the records of the live collection, each
    \* [id |-> record id, doc |-> document]
    collection,
    \* the next fresh record id (ids are uuid4 values: never handed out twice)
    next_id,
    \* VectorStoreManager.vector_store, a Chroma object: TRUE while the
    \* collection the object was created for exists (delete_collection ends
    \* it, and the object is of no use from then on)
    vector_store,
    \* QAChainManager.retriever, a retriever over the Chroma object that
    \* as_retriever() was called on: TRUE while that object's collection exists
    retriever,
    \* QAChainManager.memory_window
    memory_window,
    \* QAChainManager.memory.chat_memory.messages
    chat_memory,
    \* QAChainManager.conversation_history
    conversation_history,
    \* QAChainManager.temperature (in tenths) and QAChainManager.max_tokens
    temperature,
    max_tokens,
    \* QAChainManager.llm, the ChatOpenAI object the chain calls: its
    \* temperature and max_tokens fields
    llm,
    \* the DocumentLoader in use: its chunk_size and chunk_overlap
    loader,
    \* the text held by the file text.txt
    text_file,
    \* st.session_state of the application: vector_store_manager and
    \* qa_chain_manager (FALSE: None, TRUE: the manager, whose fields are the
    \* variables above), conversation_history, documents_loaded and
    \* api_key_configured
    session_state,
    \* what the last run of the script put on the page: whether the buttons
    \* of the documents tab and those of the chat tab are there to be clicked
    page,
    \* whether the retriever of the session's QA chain manager was obtained
    \* from the Chroma object its vector store manager holds now
    retriever_current,
    \* whether an ingestion of the session has added a chunk to the collection
    \* since the collection was last destroyed
    chunks_added,
    \* the sessions that share the persist directory and the collection name,
    \* each with a VectorStoreManager of its own: for every session, where
    \* its manager is in the operation it executes (pc), its Chroma object
    \* (vector_store: TRUE while the collection the object was created for
    \* exists), and the batch it is adding with the ids drawn for it and the
    \* number of upserts done
    procs,
    \* the records the sessions found persisted, and the operations of the
    \* sessions that have returned without an exception: the records of every
    \* add, and whether there was a clear
    completed,
    \* what the last operation was given, what it called and what it returned
    last

vars == <<collection, next_id, vector_store, retriever, memory_window,
          chat_memory, conversation_history, temperature, max_tokens, llm,
          loader, text_file, session_state, page, retriever_current,
          chunks_added, procs, completed, last>>

vs_vars == <<collection, next_id, vector_store>>

qa_vars == <<retriever, memory_window, chat_memory, conversation_history>>
llm_vars == <<temperature, max_tokens, llm>>
dl_vars == <<loader, text_file>>
app_vars == <<session_state, page, retriever_current, chunks_added>>
cc_vars == <<procs, completed>>

(* ------------------------ the Chroma collection ----------------------- *)

\* whether a Chroma object still has its collection
Usable(chroma) == chroma

RECURSIVE Orderings(_, _)
\* the sequences of n distinct elements of S
Orderings(S, n) ==
    IF n = 0 \/ S = {} THEN {<<>>}
    ELSE UNION {{<<x>> \o rest : rest \in Orderings(S \ {x}, n - 1)} : x \in S}

\* Chroma.similarity_search(query, k): the k nearest records, nearest first.
\* Which records are nearest is the embedding provider's business: every
\* ranking is possible.
Nearest(records, k) == Orderings(records, Min(k, Cardinality(records)))

(* --------------------------- the chat model --------------------------- *)

\* ChatOpenAI(model_name, temperature, max_tokens): the fields its calls
\* to the Chat Completion Provider are made with
ChatOpenAI(t, m) == [temperature |-> t, max_tokens |-> m]

(* -------------------------- conversation memory ----------------------- *)

HumanMessage(text) == [type |-> "human", content |-> text]

AIMessage(text) == [type |-> "ai", content |-> text]

\* a faulty variant: every message held is handed out
load_memory_variables_all(messages, k) == messages

\* a faulty variant: the window keeps the oldest turns
load_memory_variables_oldest(messages, k) == Prefix(messages, 2 * k)

\* ConversationBufferWindowMemory.load_memory_variables: the last k turns,
\* two messages each
load_memory_variables(messages, k) == LastN(messages, 2 * k)

\* ConversationBufferWindowMemory.save_context
save_context(messages, question, answer) ==
    messages \o <<HumanMessage(question), AIMessage(answer)>>

(* ------------------------------ the chain ----------------------------- *)

\* one call made to an external provider: whom, what for, and the error it
\* ended with (NoError: it answered)
Call(to, purpose, error) == [to |-> to, purpose |-> purpose, error |-> error]

\* What the providers do during one question: env.condense and env.generate
\* are NoError or the error the chat provider raises, env.retrieve is NoError
\* or the error the retrieval raises, env.docs the records retrieved,
\* env.answer the generated text.
ChainEnv(condense, retrieve, docs, generate, answer) ==
    [condense |-> condense, retrieve |-> retrieve, docs |-> docs,
     generate |-> generate, answer |-> answer]

\* the cases of one question: the first failure and its error, or none (the
\* condensing call can fail only when it is made: with chat history)
ChainEnvs ==
    LET a == CHOOSE x \in Answers : TRUE
        condensing == load_memory_variables(chat_memory, memory_window) # <<>>
    IN  {ChainEnv(e, NoError, <<>>, NoError, a) :
            e \in IF condensing THEN ChatErrors ELSE {}}
        \cup {ChainEnv(NoError, e, <<>>, NoError, a) : e \in RetrievalErrors}
        \cup {ChainEnv(NoError, NoError, <<>>, e, a) : e \in ChatErrors}
        \cup {ChainEnv(NoError, NoError, d, NoError, x) :
                 d \in Nearest(collection, RetrieverK), x \in Answers}

\* how the index answers the retriever's query: the error of the embedding
\* provider, or of a Chroma object whose collection has been deleted
IndexError(env) ==
    IF ~Usable(retriever) THEN "collection_not_found" ELSE env.retrieve

\* a faulty variant: the retriever answers an index error with no documents
get_relevant_documents_swallowing(env) ==
    [error |-> NoError,
     docs |-> IF IndexError(env) = NoError THEN env.docs ELSE <<>>]

\* the retriever of as_retriever(), Chroma's own: it hands the index's error
\* on to the chain
get_relevant_documents(env) ==
    [error |-> IndexError(env),
     docs |-> IF IndexError(env) = NoError THEN env.docs ELSE <<>>]

\* one part of a prompt: what it is and what it holds
Part(kind, content) == [kind |-> kind, content |-> content]

\* QAChainManager._create_custom_prompt: the template's instruction block,
\* then {context}, then {chat_history}, then {question}, then its closing
\* response guidelines.  (_create_qa_chain does not hand it to the chain.)
create_custom_prompt(context, chat_history, question) ==
    <<Part("instructions", "custom"),
      Part("context", context),
      Part("chat_history", chat_history),
      Part("question", question),
      Part("guidelines", "custom")>>

\* the prompt of the chain's question generator, which from_llm builds when
\* it is given no condense_question_prompt: instructions to rephrase, the
\* chat history, the follow-up question
condense_question_prompt(chat_history, question) ==
    <<Part("instructions", "condense"),
      Part("chat_history", chat_history),
      Part("question", question)>>

\* the standalone question the chat model writes when given the condense
\* prompt: a term over what it was asked (the text is the provider's)
standalone_question(chat_history, question) ==
    [rephrased |-> condense_question_prompt(chat_history, question)]

\* the prompt of the chain's combine-documents step, which from_llm builds
\* when it is given no combine_docs_chain_kwargs: the library's instructions
\* with the retrieved texts, then the question
stuff_prompt(context, question) ==
    <<Part("instructions", "default"),
      Part("context", context),
      Part("question", question)>>

\* ConversationalRetrievalChain.__call__({"question": question}):
\* the memory supplies chat_history; a non-empty chat_history makes the chain
\* ask the chat model for a standalone question first; then the retriever
\* is queried; then the chat model answers from the retrieved documents;
\* then the memory saves the turn.  An error at any step is raised at once.
\* Both chat calls are made by the ChatOpenAI object the chain was built
\* from, with the fields it has at the time (llm).  The answer is asked for
\* with the combine-documents prompt over the retrieved documents (named
\* here by their document) and the standalone question, which is the
\* question itself when there is no chat history (prompt; <<>> when the
\* chain did not get as far as asking for the answer).
qa_chain(question, env) ==
    LET chat_history == load_memory_variables(chat_memory, memory_window)
        condensing == chat_history # <<>>
        new_question == IF condensing THEN standalone_question(chat_history, question)
                        ELSE question
        found == get_relevant_documents(env)
        prompt == stuff_prompt([i \in 1..Len(found.docs) |-> found.docs[i].doc],
                               new_question)
        c1 == IF condensing THEN <<Call("chat", "condense", env.condense)>> ELSE <<>>
        c2 == Append(c1, Call("index", "retrieve", IndexError(env)))
        c3 == Append(c2, Call("chat", "answer", env.generate))
        Raise(e, calls) == [raised |-> TRUE, error |-> e, calls |-> calls,
                            chat_history |-> chat_history,
                            llm |-> llm,
                            prompt |-> IF calls = c3 THEN prompt ELSE <<>>,
                            retrieved |-> <<>>,
                            chat_memory |-> chat_memory]
    IN  IF condensing /\ env.condense # NoError THEN Raise(env.condense, c1)
        ELSE IF found.error # NoError THEN Raise(found.error, c2)
        ELSE IF env.generate # NoError THEN Raise(env.generate, c3)
        ELSE [raised |-> FALSE,
              response |-> [answer |-> env.answer,
                            source_documents |->
                                [i \in 1..Len(found.docs) |-> Document(found.docs[i].doc)]],
              calls |-> c3,
              chat_history |-> chat_history,
              llm |-> llm,
              prompt |-> prompt,
              retrieved |-> found.docs,
              chat_memory |-> save_context(chat_memory, question, env.answer)]

(* --------------------------- QAChainManager --------------------------- *)

None == "None"

\* dict.get(key, default)
Get(dict, key, default) == IF key \in DOMAIN dict THEN dict[key] ELSE default

\* a faulty variant: a text of exactly the preview length is cut too
ExcerptOffByOne(page_content) ==
    IF Len(page_content) >= PreviewLen
    THEN Prefix(page_content, PreviewLen) \o <<".", ".", ".">>
    ELSE page_content

\* doc.page_content[:300] + "..." if len(doc.page_content) > 300 else doc.page_content
Excerpt(page_content) ==
    IF Len(page_content) > PreviewLen
    THEN Prefix(page_content, PreviewLen) \o <<".", ".", ".">>
    ELSE page_content

\* the source_info of the i-th source document (i counted from 1)
SourceInfo(doc, i) ==
    [content |-> Excerpt(doc.page_content),
     metadata |-> doc.metadata,
     source_number |-> i]

\* the sources list built from the chain's source documents
Sources(source_docs) ==
    [i \in 1..Len(source_docs) |-> SourceInfo(source_docs[i], i)]

\* a faulty variant: source_count is the number of sources asked for
ConversationEntryAskedFor(question, answer, sources) ==
    [question |-> question, answer |-> answer, source_count |-> RetrieverK]

\* the entry appended to conversation_history (its timestamp, the wall clock
\* at the time of the call, is not modelled)
ConversationEntry(question, answer, sources) ==
    [question |-> question, answer |-> answer, source_count |-> Len(sources)]

\* what ask_question returns for an empty question
EmptyQuestionResult ==
    [answer |-> <<"Please provide a valid question.">>,
     source_documents |-> <<>>,
     error |-> "Empty question"]

\* what ask_question returns from its except branch
FailureResult(e) ==
    [answer |-> <<"I apologize, but I encountered an error while processing your question: ", e>>,
     source_documents |-> <<>>,
     error |-> e,
     success |-> FALSE]

\* what ask_question returns when the chain answered
SuccessResult(question, answer, sources) ==
    [answer |-> answer,
     source_documents |-> sources,
     question |-> question,
     success |-> TRUE]

\* a faulty variant: the question is tested without strip()
IsEmptyQuestionUnstripped(question) == question = <<>>

\* the first test of ask_question: not question.strip()
IsEmptyQuestion(question) == Strip(question) = <<>>

\* a faulty variant: the failed question is recorded as a turn
OnExceptionRecordsTurn(run) ==
    [raised |-> FALSE,
     result |-> [answer |-> <<"I apologize, but I encountered an error while processing your question: ", run.error>>,
                 source_documents |-> <<>>,
                 error |-> run.error,
                 success |-> FALSE],
     calls |-> run.calls,
     chat_history |-> run.chat_history,
     llm |-> run.llm,
     prompt |-> run.prompt,
     retrieved |-> run.retrieved,
     chat_memory |-> run.chat_memory,
     conversation_history |->
         Append(conversation_history,
                [question |-> <<>>, answer |-> <<run.error>>, source_count |-> 0])]

\* a faulty variant: the error is logged and raised again
OnExceptionReraise(run) ==
    [raised |-> TRUE,
     result |-> None,
     calls |-> run.calls,
     chat_history |-> run.chat_history,
     llm |-> run.llm,
     prompt |-> run.prompt,
     retrieved |-> run.retrieved,
     chat_memory |-> run.chat_memory,
     conversation_history |-> conversation_history]

\* a faulty variant: the chain is called a second time before the failure
\* is reported
OnExceptionRetry(run) ==
    [raised |-> FALSE,
     result |-> FailureResult(run.error),
     calls |-> run.calls \o run.calls,
     chat_history |-> run.chat_history,
     llm |-> run.llm,
     prompt |-> run.prompt,
     retrieved |-> run.retrieved,
     chat_memory |-> run.chat_memory,
     conversation_history |-> conversation_history]

\* the handler "except Exception as e" of ask_question: the error becomes a
\* failure result; run is the chain call that raised
OnException(run) ==
    [raised |-> FALSE,
     result |-> FailureResult(run.error),
     calls |-> run.calls,
     chat_history |-> run.chat_history,
     llm |-> run.llm,
     prompt |-> run.prompt,
     retrieved |-> run.retrieved,
     chat_memory |-> run.chat_memory,
     conversation_history |-> conversation_history]

\* the rest of the try block of ask_question, after the chain returned
OnResponse(question, run) ==
    LET answer == Get(run.response, "answer", <<"No answer generated">>)
        source_docs == Get(run.response, "source_documents", <<>>)
        sources == Sources(source_docs)
        conversation_entry == ConversationEntry(question, answer, sources)
    IN  [raised |-> FALSE,
         result |-> SuccessResult(question, answer, sources),
         calls |-> run.calls,
         chat_history |-> run.chat_history,
         llm |-> run.llm,
         prompt |-> run.prompt,
         retrieved |-> run.retrieved,
         chat_memory |-> run.chat_memory,
         conversation_history |-> Append(conversation_history, conversation_entry)]

\* QAChainManager.ask_question: what it returns (result), whether an
\* exception escapes it (raised), the provider calls it made, the chat
\* history the memory offered to the chain, the chat model fields its chat
\* calls are made with, the prompt the answer was asked for with, the
\* records the retriever found, and the memory and the conversation history
\* it leaves
ask_question(question, env) ==
    IF IsEmptyQuestion(question)
    THEN [raised |-> FALSE,
          result |-> EmptyQuestionResult,
          calls |-> <<>>,
          chat_history |-> <<>>,
          llm |-> llm,
          prompt |-> <<>>,
          retrieved |-> <<>>,
          chat_memory |-> chat_memory,
          conversation_history |-> conversation_history]
    ELSE LET run == qa_chain(question, env)
         IN  IF run.raised THEN OnException(run) ELSE OnResponse(question, run)

\* a faulty variant: only the history kept for display is cleared
clear_history_display_only ==
    [chat_memory |-> chat_memory, conversation_history |-> <<>>]

\* QAChainManager.clear_history: self.memory.clear() and
\* self.conversation_history.clear()
clear_history == [chat_memory |-> <<>>, conversation_history |-> <<>>]

\* An optional argument: <<>> for None, <<v>> for the value v.
Optional(values) == {<<>>} \cup {<<v>> : v \in values}

\* the temperatures (in tenths) and max_tokens values a caller may pass
Temperatures == {0, 7}
MaxTokensValues == {500}

\* a faulty variant: the manager's fields are updated, the chat model is not
update_chain_parameters_fields_only(new_temperature, new_max_tokens) ==
    [temperature |-> IF new_temperature # <<>> THEN new_temperature[1] ELSE temperature,
     max_tokens |-> IF new_max_tokens # <<>> THEN new_max_tokens[1] ELSE max_tokens,
     llm |-> llm]

\* QAChainManager.update_chain_parameters(temperature, max_tokens): an
\* argument that is not None is stored in the manager and in self.llm
update_chain_parameters(new_temperature, new_max_tokens) ==
    [temperature |-> IF new_temperature # <<>> THEN new_temperature[1] ELSE temperature,
     max_tokens |-> IF new_max_tokens # <<>> THEN new_max_tokens[1] ELSE max_tokens,
     llm |-> [temperature |-> IF new_temperature # <<>> THEN new_temperature[1]
                              ELSE llm.temperature,
              max_tokens |-> IF new_max_tokens # <<>> THEN new_max_tokens[1]
                             ELSE llm.max_tokens]]

\* QAChainManager.get_memory_summary
get_memory_summary ==
    LET chat_history == load_memory_variables(chat_memory, memory_window)
    IN  [total_conversations |-> Len(conversation_history),
         memory_window |-> memory_window,
         current_memory_items |-> Len(chat_history),
         last_question |->
             IF conversation_history # <<>>
             THEN conversation_history[Len(conversation_history)].question
             ELSE None]

(* ------------------------- VectorStoreManager ------------------------- *)

\* VectorStoreManager.as_retriever: a retriever over the manager's Chroma object
as_retriever == vector_store

\* the batches a caller may pass to add_documents
Batches == SeqsUpTo(Docs, MaxBatch)

\* What the providers do during one add_documents call: env.embed is NoError
\* or the error the embedding provider raises, env.upsert_fail the number of
\* the upsert call the store fails (0: none fails).
AddEnvs == [embed : {NoError, "embedding_error"}, upsert_fail : 0..2]

\* the positions of a batch, in order, whose document satisfies keep
RECURSIVE Positions(_, _, _)
Positions(documents, i, with_metadata) ==
    IF i > Len(documents) THEN <<>>
    ELSE (IF (DocMetadata(documents[i]) # {}) = with_metadata THEN <<i>> ELSE <<>>)
         \o Positions(documents, i + 1, with_metadata)

\* Chroma.add_documents (VectorStore.add_documents, Chroma.add_texts): an id
\* is drawn for every text, all texts are embedded, then the texts with
\* metadata are upserted in one call and the texts without metadata in
\* another.  An upsert call stores all of its records or none.
chroma_add_documents(documents, env) ==
    LET n == Len(documents)
        ids == [i \in 1..n |-> next_id + i - 1]
        Record(i) == [id |-> ids[i], doc |-> documents[i]]
        non_empty_ids == Positions(documents, 1, TRUE)
        empty_ids == Positions(documents, 1, FALSE)
        upserts == (IF non_empty_ids # <<>> THEN <<non_empty_ids>> ELSE <<>>)
                   \o (IF empty_ids # <<>> THEN <<empty_ids>> ELSE <<>>)
        Stored(j) == {Record(upserts[j][x]) : x \in 1..Len(upserts[j])}
        embedded == <<Call("embedding", "embed_documents", env.embed)>>
    IN  IF env.embed # NoError
        THEN [raised |-> TRUE, error |-> env.embed, calls |-> embedded,
              collection |-> collection]
        ELSE IF ~Usable(vector_store)
        THEN [raised |-> TRUE, error |-> "collection_not_found", calls |-> embedded,
              collection |-> collection]
        ELSE IF env.upsert_fail \in 1..Len(upserts)
        THEN [raised |-> TRUE, error |-> "store_error", calls |-> embedded,
              collection |-> collection
                  \cup UNION {Stored(j) : j \in 1..(env.upsert_fail - 1)}]
        ELSE [raised |-> FALSE, doc_ids |-> ids, calls |-> embedded,
              collection |-> collection \cup UNION {Stored(j) : j \in 1..Len(upserts)}]

\* a faulty variant: an empty batch is handed to Chroma like any other
add_documents_unguarded(documents, env) == chroma_add_documents(documents, env)

\* VectorStoreManager.add_documents: an empty batch returns [] at once; an
\* error of the Chroma call is logged and raised again
add_documents(documents, env) ==
    IF documents = <<>>
    THEN [raised |-> FALSE, doc_ids |-> <<>>, calls |-> <<>>, collection |-> collection]
    ELSE chroma_add_documents(documents, env)

\* What the persistent store does while a VectorStoreManager is constructed
\* (exists: whether chroma.sqlite3 is found in the persist directory).
InitializeEnvs == [exists : BOOLEAN, store : {"ok", "initialize_failed"}]

\* a faulty variant: a new collection is created, whatever was persisted
initialize_vector_store_fresh(env) ==
    IF env.store = "initialize_failed"
    THEN [raised |-> TRUE, collection |-> collection, vector_store |-> vector_store]
    ELSE [raised |-> FALSE, collection |-> {}, vector_store |-> TRUE]

\* VectorStoreManager.__init__ and _initialize_vector_store: whether or not
\* a store is found, Chroma(collection_name, embedding_function,
\* persist_directory) binds a new Chroma object to the collection of that
\* name, with the records it holds, creating it empty if there is none.  An
\* error is raised again, and no manager is constructed.
initialize_vector_store(env) ==
    IF env.store = "initialize_failed"
    THEN [raised |-> TRUE, collection |-> collection, vector_store |-> vector_store]
    ELSE IF env.exists
    THEN [raised |-> FALSE, collection |-> collection, vector_store |-> TRUE]
    ELSE [raised |-> FALSE, collection |-> collection, vector_store |-> TRUE]

\* What the store does during one delete_collection call.
DeleteEnvs == {"ok", "delete_failed", "initialize_failed"}

\* a faulty variant: the collection is deleted and no new one is initialized
delete_collection_only(env) ==
    IF ~Usable(vector_store) \/ env = "delete_failed"
    THEN [raised |-> TRUE, deleted |-> FALSE, collection |-> collection,
          vector_store |-> vector_store]
    ELSE [raised |-> FALSE, deleted |-> TRUE, collection |-> {},
          vector_store |-> FALSE]

\* VectorStoreManager.delete_collection: the Chroma object deletes its
\* collection (deleted: every Chroma object created for it is dead), then
\* _initialize_vector_store binds a new Chroma object to a new, empty
\* collection of the same name.  An error at either step is raised again.
delete_collection(env) ==
    IF ~Usable(vector_store) \/ env = "delete_failed"
    THEN [raised |-> TRUE, deleted |-> FALSE, collection |-> collection,
          vector_store |-> vector_store]
    ELSE IF env = "initialize_failed"
    THEN [raised |-> TRUE, deleted |-> TRUE, collection |-> {},
          vector_store |-> FALSE]
    ELSE [raised |-> FALSE, deleted |-> TRUE, collection |-> {},
          vector_store |-> TRUE]

\* the filter_criteria a caller may pass, as sets of <<key, value>> pairs:
\* none (None or {}, which the method treats alike) and one on file_name
Filters == {{}, {<<"file_name", 1>>}}

\* Chroma's where-filter: the record's metadata has every pair of the filter
MatchesFilter(record, filter) == filter \subseteq DocMetadata(record.doc)

\* What the embedding provider does during one search call (env.embed is
\* NoError or the error it raises) and how near the query the index finds
\* the records: env.ranking lists the records of the collection, the most
\* similar first.
SearchEnvs ==
    [embed : {NoError, "embedding_error"},
     ranking : Orderings(collection, Cardinality(collection))]

\* the position of a record in a ranking
RankOf(ranking, record) == CHOOSE i \in 1..Len(ranking) : ranking[i] = record

\* Chroma.similarity_search_with_score(query, k, filter): the query is
\* embedded, then the collection is queried for the k most similar records
\* among those the filter admits; each comes with its distance, which grows
\* with its rank
chroma_similarity_search_with_score(k, filter, env) ==
    LET embedded == <<Call("embedding", "embed_query", env.embed)>>
        Admitted(record) == MatchesFilter(record, filter)
        found == Prefix(SelectSeq(env.ranking, Admitted), k)
    IN  IF env.embed # NoError
        THEN [raised |-> TRUE, error |-> env.embed, calls |-> embedded, docs |-> <<>>]
        ELSE IF ~Usable(vector_store)
        THEN [raised |-> TRUE, error |-> "collection_not_found", calls |-> embedded,
              docs |-> <<>>]
        ELSE [raised |-> FALSE, error |-> NoError, calls |-> embedded,
              docs |-> [i \in 1..Len(found) |->
                          <<found[i], RankOf(env.ranking, found[i])>>]]

\* Chroma.similarity_search(query, k, filter): the documents of
\* similarity_search_with_score, without the scores
chroma_similarity_search(k, filter, env) ==
    LET scored == chroma_similarity_search_with_score(k, filter, env)
    IN  [scored EXCEPT !.docs = [i \in 1..Len(scored.docs) |-> scored.docs[i][1]]]

\* VectorStoreManager.similarity_search: the records found, or [] after any
\* error
similarity_search(k, filter_criteria, env) ==
    LET found == chroma_similarity_search(k, filter_criteria, env)
    IN  IF found.raised THEN <<>> ELSE found.docs

\* VectorStoreManager.similarity_search_with_score: the (record, score)
\* pairs found, or [] after any error
similarity_search_with_score(k, filter_criteria, env) ==
    LET found == chroma_similarity_search_with_score(k, filter_criteria, env)
    IN  IF found.raised THEN <<>> ELSE found.docs

\* VectorStoreManager.get_collection_info
get_collection_info ==
    IF ~Usable(vector_store)
    THEN [error |-> "collection_not_found"]
    ELSE [collection_name |-> "qa_documents",
          document_count |-> Cardinality(collection)]

(* --------------------------- DocumentLoader --------------------------- *)

\* DocumentLoader(chunk_size, chunk_overlap)
DocumentLoader(chunk_size, chunk_overlap) ==
    [chunk_size |-> chunk_size, chunk_overlap |-> chunk_overlap]

\* self.supported_extensions
supported_extensions == {".pdf", ".txt", ".docx", ".doc"}

\* a faulty variant: the empty separator, which cuts between any two
\* characters, is left out
separators_without_empty == << <<"\n", "\n">>, <<"\n">>, <<" ">> >>

\* separators=["\n\n", "\n", " ", ""] of the text splitter
separators == << <<"\n", "\n">>, <<"\n">>, <<" ">>, <<>> >>

\* str.lower() on the suffixes of the run
Lower(suffix) ==
    CASE suffix = ".TXT" -> ".txt"
      [] suffix = ".PDF" -> ".pdf"
      [] OTHER -> suffix

\* whether sep occurs in text at position i
MatchesAt(text, sep, i) ==
    /\ i + Len(sep) - 1 <= Len(text)
    /\ \A j \in 1..Len(sep) : text[i + j - 1] = sep[j]

\* re.search(re.escape(sep), text) for a non-empty sep
Contains(text, sep) == \E i \in 1..Len(text) : MatchesAt(text, sep, i)

\* A piece of a text: where it starts in the source text and its characters.
Piece(start, text) == [start |-> start, text |-> text]

\* re.split("(sep)", text) scanned from position i, each separator joined to
\* the piece that follows it (keep_separator=True); cur is the piece being
\* read and cur_start where it starts
RECURSIVE SplitAt(_, _, _, _, _)
SplitAt(text, sep, i, cur_start, cur) ==
    IF i > Len(text) THEN <<Piece(cur_start, cur)>>
    ELSE IF MatchesAt(text, sep, i)
    THEN <<Piece(cur_start, cur)>> \o SplitAt(text, sep, i + Len(sep), i, sep)
    ELSE SplitAt(text, sep, i + 1, cur_start, Append(cur, text[i]))

IsNonEmptyPiece(piece) == piece.text # <<>>

\* _split_text_with_regex(text, separator, keep_separator=True) on the text
\* that starts at position base of the source: list(text) for the empty
\* separator; empty pieces are dropped
split_text_with_regex(text, base, sep) ==
    IF sep = <<>>
    THEN [i \in 1..Len(text) |-> Piece(base + i - 1, <<text[i]>>)]
    ELSE LET pieces == SelectSeq(SplitAt(text, sep, 1, 1, <<>>), IsNonEmptyPiece)
         IN  [i \in 1..Len(pieces) |->
                 Piece(base + pieces[i].start - 1, pieces[i].text)]

\* the concatenation of the texts of a sequence of pieces
RECURSIVE Join(_)
Join(pieces) ==
    IF pieces = <<>> THEN <<>> ELSE Head(pieces).text \o Join(Tail(pieces))

\* A chunk: its text, and the positions first..last of the source text it
\* was cut from (the positions are not part of the Document the loader
\* returns; they are kept to state where chunks overlap).
Chunk(text, first) == [text |-> text, first |-> first, last |-> first + Len(text) - 1]

\* _join_docs(current_doc, separator="") with strip_whitespace: the joined
\* text stripped, or no chunk when nothing is left
join_docs(current_doc) ==
    LET joined == Join(current_doc)
        stripped == Strip(joined)
        lead == Len(joined) - Len(LStrip(joined))
    IN  IF stripped = <<>> THEN <<>>
        ELSE <<Chunk(stripped, current_doc[1].start + lead)>>

\* a faulty variant: pieces leave current_doc only while the next piece
\* does not fit
RECURSIVE PopFrontUntilFits(_, _, _, _, _)
PopFrontUntilFits(current_doc, total, len, chunk_size, chunk_overlap) ==
    IF total + len > chunk_size /\ total > 0
    THEN PopFrontUntilFits(Tail(current_doc), total - Len(Head(current_doc).text),
                           len, chunk_size, chunk_overlap)
    ELSE [current_doc |-> current_doc, total |-> total]

\* the while loop of _merge_splits: pieces leave current_doc from the front
\* while more than chunk_overlap is kept or the next piece does not fit
RECURSIVE PopFront(_, _, _, _, _)
PopFront(current_doc, total, len, chunk_size, chunk_overlap) ==
    IF total > chunk_overlap \/ (total + len > chunk_size /\ total > 0)
    THEN PopFront(Tail(current_doc), total - Len(Head(current_doc).text),
                  len, chunk_size, chunk_overlap)
    ELSE [current_doc |-> current_doc, total |-> total]

\* _merge_splits(splits, separator="") from the i-th piece on: docs are the
\* chunks made so far, current_doc the pieces of the chunk being filled and
\* total their length
RECURSIVE MergeFrom(_, _, _, _, _, _, _)
MergeFrom(splits, i, docs, current_doc, total, chunk_size, chunk_overlap) ==
    IF i > Len(splits) THEN docs \o join_docs(current_doc)
    ELSE LET d == splits[i]
             len == Len(d.text)
             full == total + len > chunk_size /\ current_doc # <<>>
             kept == IF full
                     THEN PopFront(current_doc, total, len, chunk_size, chunk_overlap)
                     ELSE [current_doc |-> current_doc, total |-> total]
         IN  MergeFrom(splits, i + 1,
                       IF full THEN docs \o join_docs(current_doc) ELSE docs,
                       Append(kept.current_doc, d), kept.total + len,
                       chunk_size, chunk_overlap)

merge_splits(splits, chunk_size, chunk_overlap) ==
    IF splits = <<>> THEN <<>>
    ELSE MergeFrom(splits, 1, <<>>, <<>>, 0, chunk_size, chunk_overlap)

\* the index of the separator _split_text chooses: the first one that is
\* empty or occurs in the text
RECURSIVE ChooseSeparator(_, _, _)
ChooseSeparator(text, seps, i) ==
    IF i >= Len(seps) \/ seps[i] = <<>> \/ Contains(text, seps[i]) THEN i
    ELSE ChooseSeparator(text, seps, i + 1)

\* RecursiveCharacterTextSplitter._split_text(text, separators) on the text
\* that starts at position base of the source.  SplitLoop is its loop over
\* the pieces: a piece shorter than chunk_size waits in good_splits to be
\* merged, any other piece is split with the remaining separators or, when
\* none remains, becomes a chunk as it is.
RECURSIVE split_text(_, _, _, _, _)
RECURSIVE SplitLoop(_, _, _, _, _, _, _)
SplitLoop(splits, i, good_splits, final_chunks, new_separators, chunk_size, chunk_overlap) ==
    IF i > Len(splits)
    THEN final_chunks \o merge_splits(good_splits, chunk_size, chunk_overlap)
    ELSE LET piece == splits[i]
         IN  IF Len(piece.text) < chunk_size
             THEN SplitLoop(splits, i + 1, Append(good_splits, piece), final_chunks,
                            new_separators, chunk_size, chunk_overlap)
             ELSE SplitLoop(splits, i + 1, <<>>,
                            final_chunks
                              \o merge_splits(good_splits, chunk_size, chunk_overlap)
                              \o (IF new_separators = <<>>
                                  THEN <<Chunk(piece.text, piece.start)>>
                                  ELSE split_text(piece.text, piece.start, new_separators,
                                                  chunk_size, chunk_overlap)),
                            new_separators, chunk_size, chunk_overlap)

split_text(text, base, seps, chunk_size, chunk_overlap) ==
    LET chosen == ChooseSeparator(text, seps, 1)
        separator == seps[chosen]
        new_separators == IF separator = <<>> THEN <<>>
                          ELSE SubSeq(seps, chosen + 1, Len(seps))
        splits == split_text_with_regex(text, base, separator)
    IN  SplitLoop(splits, 1, <<>>, <<>>, new_separators, chunk_size, chunk_overlap)

\* A file as load_single_document meets it: its path, whether it exists,
\* its suffix, whether its loader can read it, and the texts the loader
\* returns for it (one per page).
File(path, exists, suffix, readable, pages) ==
    [path |-> path, exists |-> exists, suffix |-> suffix,
     readable |-> readable, pages |-> pages]

\* the other files of the run: a missing one, one of unsupported type, one
\* its loader fails on, an empty one, and one of two pages that loads
FileSystem ==
    {File("missing.txt", FALSE, ".txt", FALSE, <<>>),
     File("notes.md", TRUE, ".md", TRUE, << <<"a", "b">> >>),
     File("broken.docx", TRUE, ".docx", FALSE, <<>>),
     File("empty.txt", TRUE, ".txt", TRUE, << <<>> >>),
     File("two.PDF", TRUE, ".PDF", TRUE, << <<"a", "\n", "b">>, <<"b", " ", "a">> >>)}

\* the texts a text file may hold
Texts == SeqsUpTo({"a", " ", "\n"}, MaxTextLen)

\* the file text.txt
TextFile(text) == File("text.txt", TRUE, ".txt", TRUE, <<text>>)

\* the text of text.txt where its content is not the matter
SampleText == <<"a", "a", " ", "b">>

\* one line of the module's logger
Log(level, message) == [level |-> level, message |-> message]

\* the metadata of the chunks of page p of a file: the loader's own, and
\* the three keys load_single_document adds
ChunkMetadata(file, p) ==
    {<<"source", file.path>>, <<"page", p>>,
     <<"source_file", file.path>>, <<"file_name", file.path>>,
     <<"file_type", Lower(file.suffix)>>}

\* self.text_splitter.split_documents(documents): the chunks of every
\* document in turn, each with the metadata of its document
RECURSIVE split_documents(_, _, _)
split_documents(file, p, self) ==
    IF p > Len(file.pages) THEN <<>>
    ELSE LET chunks == split_text(file.pages[p], 1, separators,
                                  self.chunk_size, self.chunk_overlap)
         IN  [i \in 1..Len(chunks) |->
                 [page_content |-> chunks[i].text,
                  metadata |-> ChunkMetadata(file, p),
                  page |-> p,
                  first |-> chunks[i].first,
                  last |-> chunks[i].last]]
             \o split_documents(file, p + 1, self)

\* a faulty variant: a file of unsupported type is handed to the text loader
load_single_document_any_type(file, self) ==
    IF ~file.exists
    THEN [chunks |-> <<>>, log |-> <<Log("error", "File not found")>>]
    ELSE IF ~file.readable
    THEN [chunks |-> <<>>, log |-> <<Log("error", "Error loading")>>]
    ELSE [chunks |-> split_documents(file, 1, self), log |-> <<Log("info", "Loaded")>>]

\* DocumentLoader.load_single_document: the chunks it returns and the lines
\* it logs
load_single_document(file, self) ==
    IF ~file.exists
    THEN [chunks |-> <<>>, log |-> <<Log("error", "File not found")>>]
    ELSE IF Lower(file.suffix) \notin supported_extensions
    THEN [chunks |-> <<>>, log |-> <<Log("warning", "Unsupported file type")>>]
    ELSE IF ~file.readable
    THEN [chunks |-> <<>>, log |-> <<Log("error", "Error loading")>>]
    ELSE [chunks |-> split_documents(file, 1, self), log |-> <<Log("info", "Loaded")>>]

\* DocumentLoader.load_multiple_files
RECURSIVE load_multiple_files(_, _)
load_multiple_files(file_paths, self) ==
    IF file_paths = <<>> THEN [chunks |-> <<>>, log |-> <<>>]
    ELSE LET first == load_single_document(Head(file_paths), self)
             rest == load_multiple_files(Tail(file_paths), self)
         IN  [chunks |-> first.chunks \o rest.chunks, log |-> first.log \o rest.log]

\* A directory: whether it exists and is a directory, and its files in the
\* order rglob('*') yields them.
Directory(is_dir, files) == [is_dir |-> is_dir, files |-> files]

IsSupportedFile(file) == file.exists /\ Lower(file.suffix) \in supported_extensions

\* DocumentLoader.load_directory
load_directory(directory, self) ==
    IF ~directory.is_dir
    THEN [chunks |-> <<>>, log |-> <<Log("error", "Directory not found")>>]
    ELSE LET loaded == load_multiple_files(SelectSeq(directory.files, IsSupportedFile), self)
         IN  [chunks |-> loaded.chunks,
              log |-> Append(loaded.log, Log("info", "Loaded total"))]

(* ------------------------------ actions ------------------------------- *)

\* the sessions that use the persist directory and the collection name at
\* the same time
Sessions == {"A", "B"}

\* initialize_session_state, on the first run of the script in a session:
\* no manager, no history, nothing loaded, no key, and an empty page; and
\* every session of the directory with a manager that executes nothing
InitSession ==
    /\ session_state = [vector_store_manager |-> FALSE,
                        qa_chain_manager |-> FALSE,
                        conversation_history |-> <<>>,
                        documents_loaded |-> FALSE,
                        api_key_configured |-> FALSE]
    /\ page = [documents |-> FALSE, chat |-> FALSE]
    /\ retriever_current = FALSE
    /\ chunks_added = FALSE
    /\ procs = [session \in Sessions |->
                    [pc |-> "idle", vector_store |-> TRUE,
                     documents |-> <<>>, ids |-> <<>>, upserts |-> 0]]
    /\ completed = [initial |-> collection, adds |-> {}, cleared |-> FALSE]

\* the collections _initialize_vector_store may find persisted
PersistedCollections == {{[id |-> d, doc |-> d] : d \in 1..n} : n \in 0..MaxDocs}

\* VectorStoreManager() over the persisted collection, then
\* QAChainManager(retriever=as_retriever(), memory_window=w)
Init ==
    /\ collection \in PersistedCollections
    /\ next_id = Cardinality(collection) + 1
    /\ vector_store = TRUE
    /\ retriever = TRUE
    /\ memory_window \in 1..MaxWindow
    /\ chat_memory = <<>>
    /\ conversation_history = <<>>
    /\ temperature = DefaultTemperature
    /\ max_tokens = DefaultMaxTokens
    /\ llm = ChatOpenAI(DefaultTemperature, DefaultMaxTokens)
    /\ loader = DocumentLoader(DefaultChunkSize, DefaultChunkOverlap)
    /\ text_file = SampleText
    /\ InitSession
    /\ last = [op |-> "init"]

\* QAChainManager(retriever=vector_store_manager.as_retriever(), memory_window=w)
NewQAChainManager ==
    \E w \in 1..MaxWindow :
        /\ retriever' = as_retriever
        /\ memory_window' = w
        /\ chat_memory' = <<>>
        /\ conversation_history' = <<>>
        /\ temperature' = DefaultTemperature
        /\ max_tokens' = DefaultMaxTokens
        /\ llm' = ChatOpenAI(DefaultTemperature, DefaultMaxTokens)
        /\ last' = [op |-> "__init__"]
        /\ UNCHANGED <<vs_vars, dl_vars, app_vars, cc_vars>>

\* (the providers are enumerated only for a question that reaches the chain)
AskQuestion ==
    \E question \in Questions :
      \E env \in IF IsEmptyQuestion(question)
                  THEN {ChainEnv(NoError, NoError, <<>>, NoError, CHOOSE x \in Answers : TRUE)}
                  ELSE ChainEnvs :
        LET out == ask_question(question, env)
        IN  /\ Len(out.conversation_history) <= MaxHistory
            /\ chat_memory' = out.chat_memory
            /\ conversation_history' = out.conversation_history
            /\ last' = [op |-> "ask_question",
                        question |-> question,
                        raised |-> out.raised,
                        result |-> out.result,
                        calls |-> out.calls,
                        chat_history |-> out.chat_history,
                        llm |-> out.llm,
                        prompt |-> out.prompt,
                        retrieved |-> out.retrieved]
            /\ UNCHANGED <<vs_vars, retriever, memory_window, llm_vars, dl_vars, app_vars, cc_vars>>

\* QAChainManager.clear_history
ClearHistory ==
    /\ chat_memory' = clear_history.chat_memory
    /\ conversation_history' = clear_history.conversation_history
    /\ last' = [op |-> "clear_history", raised |-> FALSE,
                cleared |-> Len(conversation_history)]
    /\ UNCHANGED <<vs_vars, retriever, memory_window, llm_vars, dl_vars, app_vars, cc_vars>>

\* QAChainManager.update_chain_parameters
UpdateChainParameters ==
    \E new_temperature \in Optional(Temperatures),
       new_max_tokens \in Optional(MaxTokensValues) :
        LET out == update_chain_parameters(new_temperature, new_max_tokens)
        IN  /\ temperature' = out.temperature
            /\ max_tokens' = out.max_tokens
            /\ llm' = out.llm
            /\ last' = [op |-> "update_chain_parameters", raised |-> FALSE,
                        temperature |-> new_temperature,
                        max_tokens |-> new_max_tokens]
            /\ UNCHANGED <<vs_vars, qa_vars, dl_vars, app_vars, cc_vars>>

GetMemorySummary ==
    /\ last' = [op |-> "get_memory_summary", result |-> get_memory_summary]
    /\ UNCHANGED <<vs_vars, qa_vars, llm_vars, dl_vars, app_vars, cc_vars>>

AddDocuments ==
    \E documents \in Batches, env \in AddEnvs :
        LET out == add_documents(documents, env)
        IN  /\ next_id + Len(documents) - 1 <= MaxIds
            /\ collection' = out.collection
            /\ next_id' = IF out.collection = collection
                          THEN next_id
                          ELSE next_id + Len(documents)
            /\ last' = [op |-> "add_documents",
                        documents |-> documents,
                        raised |-> out.raised,
                        result |-> IF out.raised THEN None ELSE out.doc_ids,
                        calls |-> out.calls,
                        before |-> collection]
            /\ UNCHANGED <<vector_store, qa_vars, llm_vars, dl_vars, app_vars, cc_vars>>

\* VectorStoreManager(persist_directory, collection_name) constructed anew
\* over the same directory and name (a restart); it replaces the manager in
\* use unless its construction raises
NewVectorStoreManager ==
    \E env \in InitializeEnvs :
        LET out == initialize_vector_store(env)
        IN  /\ collection' = out.collection
            /\ vector_store' = out.vector_store
            /\ last' = [op |-> "VectorStoreManager", raised |-> out.raised,
                        store |-> env.store]
            /\ UNCHANGED <<next_id, qa_vars, llm_vars, dl_vars, app_vars, cc_vars>>

DeleteCollection ==
    \E env \in DeleteEnvs :
        LET out == delete_collection(env)
        IN  /\ collection' = out.collection
            /\ vector_store' = out.vector_store
            /\ retriever' = (retriever /\ ~out.deleted)
            /\ last' = [op |-> "delete_collection", raised |-> out.raised]
            /\ UNCHANGED <<next_id, memory_window, chat_memory, conversation_history,
                            llm_vars, dl_vars, app_vars, cc_vars>>

SimilaritySearch ==
    \E k \in 1..RetrieverK, filter_criteria \in Filters :
        \E env \in SearchEnvs :
            /\ last' = [op |-> "similarity_search",
                        k |-> k,
                        filter_criteria |-> filter_criteria,
                        ranking |-> env.ranking,
                        raised |-> FALSE,
                        result |-> similarity_search(k, filter_criteria, env),
                        calls |-> chroma_similarity_search(k, filter_criteria, env).calls,
                        error |-> chroma_similarity_search(k, filter_criteria, env).error]
            /\ UNCHANGED <<vs_vars, qa_vars, llm_vars, dl_vars, app_vars, cc_vars>>

SimilaritySearchWithScore ==
    \E k \in 1..RetrieverK, filter_criteria \in Filters :
        \E env \in SearchEnvs :
            LET found == chroma_similarity_search_with_score(k, filter_criteria, env)
                result == similarity_search_with_score(k, filter_criteria, env)
            IN  /\ last' = [op |-> "similarity_search_with_score",
                            k |-> k,
                            filter_criteria |-> filter_criteria,
                            ranking |-> env.ranking,
                            raised |-> FALSE,
                            result |-> [i \in 1..Len(result) |-> result[i][1]],
                            scores |-> [i \in 1..Len(result) |-> result[i][2]],
                            calls |-> found.calls,
                            error |-> found.error]
                /\ UNCHANGED <<vs_vars, qa_vars, llm_vars, dl_vars, app_vars, cc_vars>>

GetCollectionInfo ==
    /\ last' = [op |-> "get_collection_info", result |-> get_collection_info]
    /\ UNCHANGED <<vs_vars, qa_vars, llm_vars, dl_vars, app_vars, cc_vars>>

\* the orchestrator's operations, over a collection that may be deleted
\* under it
Next ==
    \/ NewQAChainManager
    \/ AskQuestion
    \/ ClearHistory
    \/ GetMemorySummary
    \/ DeleteCollection

Spec == Init /\ [][Next]_vars

\* the vector store manager's operations
NextVS ==
    \/ NewVectorStoreManager
    \/ AddDocuments
    \/ DeleteCollection
    \/ GetCollectionInfo

SpecVS == Init /\ [][NextVS]_vars

\* a session over an empty collection
InitParams ==
    /\ collection = {}
    /\ next_id = 1
    /\ vector_store = TRUE
    /\ retriever = TRUE
    /\ memory_window \in 1..MaxWindow
    /\ chat_memory = <<>>
    /\ conversation_history = <<>>
    /\ temperature = DefaultTemperature
    /\ max_tokens = DefaultMaxTokens
    /\ llm = ChatOpenAI(DefaultTemperature, DefaultMaxTokens)
    /\ loader = DocumentLoader(DefaultChunkSize, DefaultChunkOverlap)
    /\ text_file = SampleText
    /\ InitSession
    /\ last = [op |-> "init"]

\* the orchestrator's operations, its side-channel operations among them
NextParams ==
    \/ NewQAChainManager
    \/ AskQuestion
    \/ ClearHistory
    \/ UpdateChainParameters

SpecParams == InitParams /\ [][NextParams]_vars

\* searches of a collection that may be deleted
NextSearch ==
    \/ SimilaritySearch
    \/ SimilaritySearchWithScore
    \/ DeleteCollection

SpecSearch == Init /\ [][NextSearch]_vars

\* the files a caller may name
Files == FileSystem \cup {TextFile(text_file)}

\* the lists of paths a caller may pass to load_multiple_files
PathLists == SeqsUpTo(Files, MaxPaths)

\* the directories of the run: a missing one, and those holding files,
\* each file once, in any order (iterdir's order is arbitrary)
Directories ==
    {Directory(FALSE, <<>>)}
    \cup {Directory(TRUE, files) :
            files \in {l \in PathLists :
                          /\ \A i \in 1..Len(l) : l[i].exists
                          /\ \A i, j \in 1..Len(l) : l[i] = l[j] => i = j}}

\* the configurations the text splitter accepts
LoaderConfigs ==
    UNION {{DocumentLoader(chunk_size, chunk_overlap) : chunk_overlap \in 0..chunk_size} :
              chunk_size \in 1..MaxChunkSize}

\* a session that only loads documents
InitLoader ==
    /\ collection = {}
    /\ next_id = 1
    /\ vector_store = TRUE
    /\ retriever = TRUE
    /\ memory_window = 1
    /\ chat_memory = <<>>
    /\ conversation_history = <<>>
    /\ temperature = DefaultTemperature
    /\ max_tokens = DefaultMaxTokens
    /\ llm = ChatOpenAI(DefaultTemperature, DefaultMaxTokens)
    /\ loader = DocumentLoader(DefaultChunkSize, DefaultChunkOverlap)
    /\ text_file = SampleText
    /\ InitSession
    /\ last = [op |-> "init"]

\* DocumentLoader(chunk_size, chunk_overlap): the text splitter refuses an
\* overlap larger than the chunk size
NewDocumentLoader ==
    \E chunk_size \in {MaxChunkSize}, chunk_overlap \in {0, 1, MaxChunkSize + 1} :
        /\ loader' = IF chunk_overlap > chunk_size THEN loader
                     ELSE DocumentLoader(chunk_size, chunk_overlap)
        /\ last' = [op |-> "DocumentLoader",
                    raised |-> chunk_overlap > chunk_size]
        /\ UNCHANGED <<vs_vars, qa_vars, llm_vars, text_file, app_vars, cc_vars>>

LoadSingleDocument ==
    \E file \in Files :
        LET out == load_single_document(file, loader)
        IN  /\ last' = [op |-> "load_single_document",
                        file |-> file,
                        raised |-> FALSE,
                        result |-> out.chunks,
                        log |-> out.log]
            /\ UNCHANGED <<vs_vars, qa_vars, llm_vars, dl_vars, app_vars, cc_vars>>

LoadMultipleFiles ==
    \E file_paths \in PathLists :
        LET out == load_multiple_files(file_paths, loader)
        IN  /\ last' = [op |-> "load_multiple_files",
                        file_paths |-> file_paths,
                        raised |-> FALSE,
                        result |-> out.chunks,
                        log |-> out.log]
            /\ UNCHANGED <<vs_vars, qa_vars, llm_vars, dl_vars, app_vars, cc_vars>>

LoadDirectory ==
    \E directory \in Directories :
        LET out == load_directory(directory, loader)
        IN  /\ last' = [op |-> "load_directory",
                        directory |-> directory,
                        raised |-> FALSE,
                        result |-> out.chunks,
                        log |-> out.log]
            /\ UNCHANGED <<vs_vars, qa_vars, llm_vars, dl_vars, app_vars, cc_vars>>

\* the document loader's operations
NextLoader ==
    \/ NewDocumentLoader
    \/ LoadSingleDocument
    \/ LoadMultipleFiles
    \/ LoadDirectory

SpecLoader == InitLoader /\ [][NextLoader]_vars

\* a DocumentLoader of any accepted configuration, and text.txt of any text
InitSplitter ==
    /\ collection = {}
    /\ next_id = 1
    /\ vector_store = TRUE
    /\ retriever = TRUE
    /\ memory_window = 1
    /\ chat_memory = <<>>
    /\ conversation_history = <<>>
    /\ temperature = DefaultTemperature
    /\ max_tokens = DefaultMaxTokens
    /\ llm = ChatOpenAI(DefaultTemperature, DefaultMaxTokens)
    /\ loader \in LoaderConfigs
    /\ text_file \in Texts
    /\ InitSession
    /\ last = [op |-> "init"]

\* the files of the run loaded one at a time
SpecSplitter == InitSplitter /\ [][LoadSingleDocument]_vars

(* --------------------------- the application -------------------------- *)

\* memory_window of a QAChainManager constructed without one, as
\* setup_qa_chain does
DefaultMemoryWindow == 10

\* the file of a path
FileAt(path) == CHOOSE file \in Files : file.path = path

\* the files a user may upload together (the uploader takes pdf, txt and
\* docx files, and the button needs at least one)
UploadedFiles ==
    {<<FileAt("text.txt")>>,
     <<FileAt("empty.txt")>>,
     <<FileAt("broken.docx"), FileAt("two.PDF")>>}

\* the directories a user may name
DirectoryPaths ==
    {Directory(FALSE, <<>>),
     Directory(TRUE, <<FileAt("notes.md")>>),
     Directory(TRUE, <<FileAt("notes.md"), FileAt("text.txt")>>)}

\* the question typed in the session: one the Ask Question button lets
\* through (it is disabled while question.strip() is empty), with blanks
\* around it
AskedQuestions == {question \in Questions : Strip(question) # <<>> /\ Len(question) > 1}

\* what the providers do during a question of the session: the cases of
\* ChainEnvs, with the records retrieved in the order of their ids
SessionChainEnvs ==
    {env \in ChainEnvs :
        \A i \in 1..(Len(env.docs) - 1) : env.docs[i].id < env.docs[i + 1].id}

\* what the providers do during an ingestion of the session: all is well,
\* the embedding fails, or the store fails on the upsert
SessionAddEnvs ==
    {env \in AddEnvs : env.upsert_fail <= 1 /\ (env.embed # NoError => env.upsert_fail = 0)}

\* the document of the collection's model that stands for a chunk of the
\* loader: one with metadata, as every chunk of the loader has
IndexedDocument(chunk) == CHOOSE d \in Docs : DocMetadata(d) # {}

\* setup_vector_store: a VectorStoreManager is constructed unless the
\* session has one; an error of the construction is shown and False returned
setup_vector_store(env) ==
    IF session_state.vector_store_manager
    THEN [ok |-> TRUE, vector_store |-> vector_store]
    ELSE LET out == initialize_vector_store(env)
         IN  [ok |-> ~out.raised, vector_store |-> out.vector_store]

\* What the constructor QAChainManager() does when setup_qa_chain calls it.
SetupEnvs == {"ok", "init_failed"}

\* setup_qa_chain on the session state ss, with chroma the Chroma object of
\* the vector store manager: a QAChainManager over chroma.as_retriever() is
\* constructed unless the session has one; True (ok) when the session has
\* one in the end
setup_qa_chain(ss, chroma, env) ==
    IF ~ss.qa_chain_manager /\ ss.vector_store_manager
    THEN [ok |-> env = "ok", created |-> env = "ok"]
    ELSE [ok |-> ss.qa_chain_manager, created |-> FALSE]

\* process_uploaded_files and process_directory from setup_vector_store on,
\* with chunks what the loader returned: the chunks are added to the vector
\* store and documents_loaded is set, unless there is no chunk or an
\* exception is raised
ingest(chunks, init_env, add_env) ==
    LET store == setup_vector_store(init_env)
        documents == [i \in 1..Len(chunks) |-> IndexedDocument(chunks[i])]
        added == add_documents(documents, add_env)
        with_manager == [session_state EXCEPT !.vector_store_manager = TRUE,
                                              !.api_key_configured = TRUE]
    IN  IF ~store.ok
        THEN [outcome |-> "no_vector_store",
              session_state |-> [session_state EXCEPT !.api_key_configured = TRUE],
              collection |-> collection]
        ELSE IF documents = <<>>
        THEN [outcome |-> "no_documents",
              session_state |-> with_manager,
              collection |-> collection]
        ELSE IF added.raised
        THEN [outcome |-> "error",
              session_state |-> with_manager,
              collection |-> added.collection]
        ELSE [outcome |-> "loaded",
              session_state |-> [with_manager EXCEPT !.documents_loaded = TRUE],
              collection |-> added.collection]

\* a faulty variant: the QA chain manager is kept
clear_vector_store_keeping_chain(env) ==
    IF ~session_state.vector_store_manager
    THEN [outcome |-> "no_vector_store", deleted |-> FALSE,
          session_state |-> [session_state EXCEPT !.api_key_configured = TRUE],
          collection |-> collection, vector_store |-> vector_store]
    ELSE LET out == delete_collection(env)
             ss == [session_state EXCEPT !.api_key_configured = TRUE]
         IN  [outcome |-> IF out.raised THEN "error" ELSE "cleared",
              deleted |-> out.deleted,
              session_state |-> IF out.raised THEN ss
                                ELSE [ss EXCEPT !.documents_loaded = FALSE],
              collection |-> out.collection,
              vector_store |-> out.vector_store]

\* clear_vector_store: the collection is deleted, documents_loaded and
\* qa_chain_manager are reset; after an exception of delete_collection
\* neither is
clear_vector_store(env) ==
    IF ~session_state.vector_store_manager
    THEN [outcome |-> "no_vector_store", deleted |-> FALSE,
          session_state |-> [session_state EXCEPT !.api_key_configured = TRUE],
          collection |-> collection, vector_store |-> vector_store]
    ELSE LET out == delete_collection(env)
             ss == [session_state EXCEPT !.api_key_configured = TRUE]
         IN  [outcome |-> IF out.raised THEN "error" ELSE "cleared",
              deleted |-> out.deleted,
              session_state |-> IF out.raised THEN ss
                                ELSE [ss EXCEPT !.documents_loaded = FALSE,
                                                !.qa_chain_manager = FALSE],
              collection |-> out.collection,
              vector_store |-> out.vector_store]

\* process_question: the response of ask_question, and the session's
\* conversation history, to which a successful response is added
process_question(question, env) ==
    LET response == ask_question(question, env)
    IN  [response |-> response,
         conversation_history |->
             IF Get(response.result, "success", FALSE)
             THEN Append(session_state.conversation_history, response.result)
             ELSE session_state.conversation_history]

\* qa_chat_section up to its buttons, in a run that has left the session
\* state ss, the manager's Chroma object chroma, and the QA chain manager's
\* retriever retr (current or not: is_current): with documents loaded the QA
\* chain is set up, and with the QA chain set up the chat's buttons are put
\* on the page
ChatSection(ss, chroma, retr, is_current) ==
    \E env \in IF ss.documents_loaded /\ ~ss.qa_chain_manager /\ ss.vector_store_manager
               THEN SetupEnvs ELSE {"ok"} :
        LET setup == IF ss.documents_loaded THEN setup_qa_chain(ss, chroma, env)
                     ELSE [ok |-> FALSE, created |-> FALSE]
        IN  /\ session_state' = [ss EXCEPT !.qa_chain_manager = @ \/ setup.created]
            /\ page' = [documents |-> TRUE, chat |-> setup.ok]
            /\ IF setup.created
               THEN /\ retriever' = chroma
                    /\ retriever_current' = TRUE
                    /\ memory_window' = DefaultMemoryWindow
                    /\ chat_memory' = <<>>
                    /\ conversation_history' = <<>>
                    /\ temperature' = DefaultTemperature
                    /\ max_tokens' = DefaultMaxTokens
                    /\ llm' = ChatOpenAI(DefaultTemperature, DefaultMaxTokens)
               ELSE /\ retriever' = retr
                    /\ retriever_current' = is_current
                    /\ UNCHANGED <<memory_window, chat_memory, conversation_history,
                                    llm_vars>>

\* a run of the script in which configure_api_key finds no valid key:
\* neither tab is shown
RunWithoutKey ==
    /\ page' = [documents |-> FALSE, chat |-> FALSE]
    /\ last' = [op |-> "main", key |-> FALSE]
    /\ UNCHANGED <<vs_vars, qa_vars, llm_vars, dl_vars, session_state,
                    retriever_current, chunks_added, cc_vars>>

\* a run of the script with a valid key and no button clicked
RunWithKey ==
    /\ ChatSection([session_state EXCEPT !.api_key_configured = TRUE],
                   vector_store, retriever, retriever_current)
    /\ last' = [op |-> "main", key |-> TRUE]
    /\ UNCHANGED <<vs_vars, dl_vars, chunks_added, cc_vars>>

\* the rest of a run in which the documents were ingested: the state of the
\* store, and the chat tab
Ingested(op, out) ==
    /\ collection' = out.collection
    /\ next_id' = next_id + Cardinality(out.collection \ collection)
    /\ vector_store' = vector_store
    /\ chunks_added' = (chunks_added \/ out.collection # collection)
    /\ loader' = DocumentLoader(DefaultChunkSize, DefaultChunkOverlap)
    /\ ChatSection(out.session_state, vector_store, retriever, retriever_current)
    /\ last' = [op |-> op, outcome |-> out.outcome]
    /\ UNCHANGED <<text_file, cc_vars>>

\* a run in which Process Uploaded Files is clicked
ProcessUploadedFiles ==
    /\ page.documents
    /\ \E uploaded_files \in UploadedFiles :
         LET self == DocumentLoader(DefaultChunkSize, DefaultChunkOverlap)
             documents == load_multiple_files(uploaded_files, self).chunks
         IN  /\ next_id + Len(documents) - 1 <= MaxIds
             /\ \E init_env \in IF session_state.vector_store_manager
                                THEN {[exists |-> TRUE, store |-> "ok"]}
                                ELSE InitializeEnvs,
                   add_env \in IF documents = <<>>
                               THEN {[embed |-> NoError, upsert_fail |-> 0]}
                               ELSE SessionAddEnvs :
                    Ingested("process_uploaded_files",
                             ingest(documents, init_env, add_env))

\* a run in which Load from Directory is clicked
ProcessDirectory ==
    /\ page.documents
    /\ \E directory_path \in DirectoryPaths :
         LET self == DocumentLoader(DefaultChunkSize, DefaultChunkOverlap)
             documents == load_directory(directory_path, self).chunks
         IN  /\ next_id + Len(documents) - 1 <= MaxIds
             /\ \E init_env \in IF session_state.vector_store_manager
                                THEN {[exists |-> TRUE, store |-> "ok"]}
                                ELSE InitializeEnvs,
                   add_env \in IF documents = <<>>
                               THEN {[embed |-> NoError, upsert_fail |-> 0]}
                               ELSE SessionAddEnvs :
                    Ingested("process_directory",
                             ingest(documents, init_env, add_env))

\* a run in which Clear Vector Store is clicked
ClearVectorStore ==
    /\ page.documents
    /\ \E env \in IF session_state.vector_store_manager THEN DeleteEnvs ELSE {"ok"} :
         LET out == clear_vector_store(env)
             replaced == out.deleted /\ out.vector_store
         IN  /\ collection' = out.collection
             /\ vector_store' = out.vector_store
             /\ chunks_added' = (chunks_added /\ ~out.deleted)
             /\ ChatSection(out.session_state, out.vector_store,
                            retriever /\ ~out.deleted,
                            retriever_current /\ ~replaced)
             /\ last' = [op |-> "clear_vector_store", outcome |-> out.outcome]
             /\ UNCHANGED <<next_id, dl_vars, cc_vars>>

\* a run in which Ask Question is clicked: the chat tab gets as far as its
\* buttons (key configured, documents loaded, QA chain set up), and the
\* question is processed
ProcessQuestion ==
    /\ page.chat
    /\ session_state.documents_loaded
    /\ session_state.qa_chain_manager
    /\ \E question \in AskedQuestions, env \in SessionChainEnvs :
         LET out == process_question(question, env)
         IN  /\ Len(out.response.conversation_history) <= MaxAsked
             /\ Len(out.conversation_history) <= MaxAsked
             /\ chat_memory' = out.response.chat_memory
             /\ conversation_history' = out.response.conversation_history
             /\ session_state' = [session_state EXCEPT
                                     !.api_key_configured = TRUE,
                                     !.conversation_history = out.conversation_history]
             /\ page' = [documents |-> TRUE, chat |-> TRUE]
             /\ last' = [op |-> "process_question",
                         outcome |-> IF Get(out.response.result, "success", FALSE)
                                     THEN "answered" ELSE "error"]
             /\ UNCHANGED <<vs_vars, retriever, memory_window, llm_vars, dl_vars,
                             retriever_current, chunks_added, cc_vars>>

\* a run in which Clear Chat History is clicked
ClearChatHistory ==
    /\ page.chat
    /\ session_state.documents_loaded
    /\ session_state.qa_chain_manager
    /\ chat_memory' = clear_history.chat_memory
    /\ conversation_history' = clear_history.conversation_history
    /\ session_state' = [session_state EXCEPT !.api_key_configured = TRUE,
                                              !.conversation_history = <<>>]
    /\ page' = [documents |-> TRUE, chat |-> TRUE]
    /\ last' = [op |-> "clear_chat_history", outcome |-> "cleared"]
    /\ UNCHANGED <<vs_vars, retriever, memory_window, llm_vars, dl_vars,
                    retriever_current, chunks_added, cc_vars>>

\* the first run of the script in a session, over the persisted collection;
\* vector_store is the Chroma object the session's vector store manager gets
\* when it is constructed
InitApp ==
    /\ collection \in {persisted \in PersistedCollections : Cardinality(persisted) <= 1}
    /\ next_id = Cardinality(collection) + 1
    /\ vector_store = TRUE
    /\ retriever = FALSE
    /\ memory_window = DefaultMemoryWindow
    /\ chat_memory = <<>>
    /\ conversation_history = <<>>
    /\ temperature = DefaultTemperature
    /\ max_tokens = DefaultMaxTokens
    /\ llm = ChatOpenAI(DefaultTemperature, DefaultMaxTokens)
    /\ loader = DocumentLoader(DefaultChunkSize, DefaultChunkOverlap)
    /\ text_file = SampleText
    /\ InitSession
    /\ last = [op |-> "init"]

\* the runs of the script in one session
NextApp ==
    \/ RunWithoutKey
    \/ RunWithKey
    \/ ProcessUploadedFiles
    \/ ProcessDirectory
    \/ ClearVectorStore
    \/ ProcessQuestion
    \/ ClearChatHistory

SpecApp == InitApp /\ [][NextApp]_vars

(* ------------------- sessions sharing one collection ------------------- *)

\* Every session runs the script in a thread of its own and keeps a
\* VectorStoreManager of its own in its session state; all of them are
\* constructed over ./chroma_db and the collection qa_documents.  Neither
\* app.py nor VectorStoreManager takes a lock, so the calls a manager makes
\* on the store during one operation interleave with the calls of the other
\* managers.  The providers and the store raise no error of their own here.

\* the batches a session adds: none, one upsert, two upserts
SessionBatches == {<<>>, <<1>>, <<1, 2>>}

\* the upsert calls of Chroma.add_texts for a batch: the positions of the
\* texts with metadata, then the positions of the texts without
UpsertsOf(documents) ==
    LET non_empty_ids == Positions(documents, 1, TRUE)
        empty_ids == Positions(documents, 1, FALSE)
    IN  (IF non_empty_ids # <<>> THEN <<non_empty_ids>> ELSE <<>>)
        \o (IF empty_ids # <<>> THEN <<empty_ids>> ELSE <<>>)

\* the records of a batch with the ids drawn for it
RecordsOf(documents, ids, positions) ==
    {[id |-> ids[positions[x]], doc |-> documents[positions[x]]] :
        x \in 1..Len(positions)}

\* a manager that executes no operation
Idle(chroma) ==
    [pc |-> "idle", vector_store |-> chroma, documents |-> <<>>, ids |-> <<>>,
     upserts |-> 0]

\* setup_vector_store in a session whose state holds no manager (a new
\* session): VectorStoreManager() binds a new Chroma object to the
\* collection of the name, creating it if there is none
SessionSetupVectorStore(session) ==
    /\ procs[session].pc = "idle"
    /\ ~procs[session].vector_store
    /\ procs' = [procs EXCEPT ![session] = Idle(TRUE)]
    /\ last' = [op |-> "setup_vector_store", session |-> session, raised |-> FALSE]
    /\ UNCHANGED <<vs_vars, qa_vars, llm_vars, dl_vars, app_vars, completed>>

\* VectorStoreManager.add_documents up to the first call on the store: an
\* empty batch returns [] at once; otherwise Chroma.add_texts draws the ids
\* and embeds the texts
SessionAddDocuments(session) ==
    \E documents \in SessionBatches :
        LET n == Len(documents)
            ids == [i \in 1..n |-> next_id + i - 1]
        IN  /\ procs[session].pc = "idle"
            /\ next_id + n - 1 <= MaxIds
            /\ next_id' = next_id + n
            /\ IF documents = <<>>
               THEN /\ procs' = procs
                    /\ completed' = [completed EXCEPT !.adds = @ \cup {{}}]
               ELSE /\ procs' = [procs EXCEPT ![session] =
                                    [@ EXCEPT !.pc = "add_texts",
                                              !.documents = documents,
                                              !.ids = ids, !.upserts = 0]]
                    /\ completed' = completed
            /\ last' = [op |-> "add_documents", session |-> session,
                        step |-> "embed", raised |-> FALSE]
            /\ UNCHANGED <<collection, vector_store, qa_vars, llm_vars, dl_vars,
                           app_vars>>

\* the next upsert call of the add_texts a manager executes: it raises when
\* the collection of the Chroma object is gone, and add_documents raises the
\* error again; after the last upsert add_documents returns the ids
SessionUpsert(session) ==
    LET proc == procs[session]
        upserts == UpsertsOf(proc.documents)
        stored == RecordsOf(proc.documents, proc.ids, upserts[proc.upserts + 1])
        all == RecordsOf(proc.documents, proc.ids,
                         [i \in 1..Len(proc.documents) |-> i])
    IN  /\ proc.pc = "add_texts"
        /\ IF ~Usable(proc.vector_store)
           THEN /\ procs' = [procs EXCEPT ![session] = Idle(proc.vector_store)]
                /\ UNCHANGED <<collection, completed>>
                /\ last' = [op |-> "add_documents", session |-> session,
                            step |-> "upsert", raised |-> TRUE]
           ELSE /\ collection' = collection \cup stored
                /\ IF proc.upserts + 1 = Len(upserts)
                   THEN /\ procs' = [procs EXCEPT ![session] = Idle(proc.vector_store)]
                        /\ completed' = [completed EXCEPT !.adds = @ \cup {all}]
                   ELSE /\ procs' = [procs EXCEPT ![session].upserts = @ + 1]
                        /\ completed' = completed
                /\ last' = [op |-> "add_documents", session |-> session,
                            step |-> "upsert", raised |-> FALSE]
        /\ UNCHANGED <<next_id, vector_store, qa_vars, llm_vars, dl_vars, app_vars>>

\* VectorStoreManager.similarity_search: the query on the collection, or
\* [] when the collection of the Chroma object is gone
SessionSimilaritySearch(session) ==
    /\ procs[session].pc = "idle"
    /\ last' = [op |-> "similarity_search", session |-> session,
                step |-> "query", raised |-> FALSE,
                found |-> IF Usable(procs[session].vector_store)
                          THEN collection ELSE {}]
    /\ UNCHANGED <<vs_vars, qa_vars, llm_vars, dl_vars, app_vars, cc_vars>>

\* VectorStoreManager.delete_collection up to its call of
\* _initialize_vector_store: the Chroma object deletes its collection, and
\* with it every Chroma object created for the collection is dead; when the
\* collection is gone already the call raises, and so does delete_collection
SessionDeleteCollection(session) ==
    /\ procs[session].pc = "idle"
    /\ IF ~Usable(procs[session].vector_store)
       THEN /\ UNCHANGED <<collection, procs>>
            /\ last' = [op |-> "delete_collection", session |-> session,
                        step |-> "delete", raised |-> TRUE]
       ELSE /\ collection' = {}
            /\ procs' = [other \in Sessions |->
                            [procs[other] EXCEPT
                                !.vector_store = FALSE,
                                !.pc = IF other = session THEN "deleted" ELSE @]]
            /\ last' = [op |-> "delete_collection", session |-> session,
                        step |-> "delete", raised |-> FALSE]
    /\ UNCHANGED <<next_id, vector_store, qa_vars, llm_vars, dl_vars, app_vars,
                   completed>>

\* the end of VectorStoreManager.delete_collection: _initialize_vector_store
\* binds a new Chroma object to the collection of the name, creating it if
\* there is none
SessionInitializeVectorStore(session) ==
    /\ procs[session].pc = "deleted"
    /\ procs' = [procs EXCEPT ![session] = Idle(TRUE)]
    /\ completed' = [completed EXCEPT !.cleared = TRUE]
    /\ last' = [op |-> "delete_collection", session |-> session,
                step |-> "initialize", raised |-> FALSE]
    /\ UNCHANGED <<vs_vars, qa_vars, llm_vars, dl_vars, app_vars>>

\* two sessions over an empty or a persisted collection
InitSessions ==
    /\ InitApp
    /\ \A session \in Sessions : Usable(procs[session].vector_store)

NextSessions ==
    \E session \in Sessions :
        \/ SessionSetupVectorStore(session)
        \/ SessionAddDocuments(session)
        \/ SessionUpsert(session)
        \/ SessionSimilaritySearch(session)
        \/ SessionDeleteCollection(session)
        \/ SessionInitializeVectorStore(session)

SpecSessions == InitSessions /\ [][NextSessions]_vars

(* ----------------------------- properties ----------------------------- *)

\* the last operation was ask_question
Asked == last.op = "ask_question"

\* the last operation was an ask_question that returned success=True
Answered == Asked /\ ~last.raised /\ Get(last.result, "success", FALSE)

\* the messages of a sequence of conversation entries, oldest first
RECURSIVE TurnMessages(_)
TurnMessages(entries) ==
    IF entries = <<>> THEN <<>>
    ELSE <<HumanMessage(Head(entries).question), AIMessage(Head(entries).answer)>>
         \o TurnMessages(Tail(entries))

C2_FifoWindow ==
    /\ load_memory_variables(chat_memory, memory_window)
         = TurnMessages(LastN(conversation_history,
                              Min(Len(conversation_history), memory_window)))
    /\ Answered =>
         LET before == SubSeq(conversation_history, 1, Len(conversation_history) - 1)
         IN  last.chat_history
               = TurnMessages(LastN(before, Min(Len(before), memory_window)))

\* C2's case: a question answered after the oldest turn had left the window
C2_Witness ==
    /\ Answered
    /\ Len(conversation_history) > memory_window + 1
    /\ last.chat_history # <<>>
    /\ conversation_history[1].question # conversation_history[2].question

\* the question consists of whitespace only, or is empty
OnlyWhitespace(question) == \A i \in 1..Len(question) : question[i] \in Whitespace

\* a call of the operation described by l to the chat provider failed
ChatFailed(l) ==
    \E i \in 1..Len(l.calls) : l.calls[i].to = "chat" /\ l.calls[i].error # NoError

\* the retrieval of the operation described by l failed
RetrievalFailed(l) ==
    \E i \in 1..Len(l.calls) : l.calls[i].to = "index" /\ l.calls[i].error # NoError

\* the question described by l reached DONE: its last call is the chat
\* provider's answer
Done(l) ==
    /\ l.calls # <<>>
    /\ l.calls[Len(l.calls)] = Call("chat", "answer", NoError)

\* C3: an ask_question with an empty or whitespace-only question returns a
\* failure result (error populated, no sources, not marked successful),
\* calls no provider, and leaves conversation history and memory unchanged.
C3_EmptyQuestionRejected ==
    [][(last'.op = "ask_question" /\ OnlyWhitespace(last'.question)) =>
         /\ ~last'.raised
         /\ Get(last'.result, "error", NoError) # NoError
         /\ last'.result.source_documents = <<>>
         /\ ~Get(last'.result, "success", FALSE)
         /\ last'.calls = <<>>
         /\ UNCHANGED <<chat_memory, conversation_history>>]_vars

\* C3's case: a whitespace-only question asked of an orchestrator that holds turns
C3_Witness ==
    /\ Asked
    /\ last.question = <<" ">>
    /\ last.result.error = "Empty question"
    /\ conversation_history # <<>>

\* C4: when a call to the chat provider fails during a question,
\* ask_question returns success=False with the provider's error as error, and
\* conversation history and memory are as before the question.
C4_ChatFailureLeavesNoTurn ==
    [][(last'.op = "ask_question" /\ ChatFailed(last')) =>
         /\ ~last'.raised
         /\ "success" \in DOMAIN last'.result
         /\ last'.result.success = FALSE
         /\ last'.result.error \in ChatErrors
         /\ last'.result.error = last'.calls[Len(last'.calls)].error
         /\ UNCHANGED <<chat_memory, conversation_history>>]_vars

\* C4's case: the chat provider times out while answering, after retrieval,
\* with turns in the memory
C4_Witness ==
    /\ Asked
    /\ last.calls # <<>>
    /\ last.calls[Len(last.calls)] = Call("chat", "answer", "timeout")
    /\ last.result.error = "timeout"
    /\ conversation_history # <<>>

\* C5: when the retrieval of a question fails, ask_question returns
\* success=False with the error, no provider is called after the failed
\* retrieval, and no question whose retrieval failed is answered.
C5_RetrievalFailureFails ==
    /\ (Asked /\ RetrievalFailed(last)) =>
         /\ ~last.raised
         /\ "success" \in DOMAIN last.result
         /\ last.result.success = FALSE
         /\ last.result.source_documents = <<>>
         /\ last.calls[Len(last.calls)].to = "index"
         /\ last.result.error = last.calls[Len(last.calls)].error
    /\ Answered => ~RetrievalFailed(last)

\* C5's case: the embedding provider fails during the retrieval of a question
C5_Witness ==
    /\ Asked
    /\ RetrievalFailed(last)
    /\ last.result.error = "embedding_error"

\* C6: a question that reaches DONE returns success=True with the answer
\* and the sources, and appends exactly one entry with its question, its
\* answer and the number of its sources; a question that does not reach
\* DONE appends nothing; only clear_history (and a new manager) empties the
\* conversation history, and no other operation changes it.
C6_OneTurnPerAnswer ==
    [][/\ (last'.op = "ask_question" /\ Done(last')) =>
            /\ ~last'.raised
            /\ Get(last'.result, "success", FALSE)
            /\ last'.result.answer \in Answers
            /\ last'.result.question = last'.question
            /\ Len(last'.result.source_documents) = Len(last'.retrieved)
            /\ conversation_history' =
                 Append(conversation_history,
                        [question |-> last'.question,
                         answer |-> last'.result.answer,
                         source_count |-> Len(last'.result.source_documents)])
       /\ (last'.op = "ask_question" /\ ~Done(last')) =>
            /\ ~Get(last'.result, "success", FALSE)
            /\ UNCHANGED conversation_history
       /\ last'.op \in {"clear_history", "__init__"} => conversation_history' = <<>>
       /\ last'.op \notin {"ask_question", "clear_history", "__init__"} =>
            UNCHANGED conversation_history]_vars

\* C6's case: a question answered from two sources after an earlier turn
C6_Witness ==
    /\ Answered
    /\ Len(last.result.source_documents) = 2
    /\ Len(conversation_history) = 2
    /\ conversation_history[2].source_count = 2

\* C7: ask_question never raises: it returns a result with an answer and
\* either success=True or an error; a question that fails leaves the
\* orchestrator as it was, so that later questions are processed as before.
C7_ErrorsAreReturned ==
    [][last'.op = "ask_question" =>
         /\ ~last'.raised
         /\ {"answer", "source_documents"} \subseteq DOMAIN last'.result
         /\ \/ Get(last'.result, "success", FALSE)
            \/ Get(last'.result, "error", NoError) # NoError
         /\ ~Get(last'.result, "success", FALSE) => UNCHANGED qa_vars]_vars

\* C7's case: a question answered after a turn, by an orchestrator whose
\* retriever has lost its collection, and so failed
C7_Witness ==
    /\ Asked
    /\ ~last.raised
    /\ Get(last.result, "error", NoError) = "collection_not_found"
    /\ conversation_history # <<>>

\* C8: the i-th source of a result is numbered i and carries the i-th
\* retrieved document's metadata; its content is the document's text when
\* that has at most 300 characters, and else its first 300 characters
\* followed by "...".
C8_SourceExcerpts ==
    Answered =>
        /\ Len(last.result.source_documents) = Len(last.retrieved)
        /\ \A i \in 1..Len(last.retrieved) :
             LET source == last.result.source_documents[i]
                 text == DocText(last.retrieved[i].doc)
             IN  /\ source.source_number = i
                 /\ source.metadata = DocMetadata(last.retrieved[i].doc)
                 /\ Len(text) <= PreviewLen => source.content = text
                 /\ Len(text) > PreviewLen =>
                      /\ Len(source.content) = PreviewLen + 3
                      /\ \A j \in 1..PreviewLen : source.content[j] = text[j]
                      /\ \A j \in 1..3 : source.content[PreviewLen + j] = "."

\* C8's case: a result whose first source is a cut text and whose second is
\* one of exactly 300 characters
C8_Witness ==
    /\ Answered
    /\ Len(last.retrieved) = 2
    /\ Len(DocText(last.retrieved[1].doc)) = PreviewLen + 1
    /\ Len(DocText(last.retrieved[2].doc)) = PreviewLen
    /\ Len(last.result.source_documents[1].content) = PreviewLen + 3

\* some search for the single nearest record returns this record
Searchable(record) ==
    \E env \in SearchEnvs : similarity_search(1, {}, env) = <<record>>

\* every result a similarity_search may return in the current state
SearchResults ==
    {similarity_search(k, f, env) : k \in 1..RetrieverK, f \in Filters, env \in SearchEnvs}

\* C9: once delete_collection has completed, get_collection_info reports a
\* document_count of 0 and every search returns an empty result; the
\* collection stays empty, and every search of it empty, until an
\* add_documents stores records; no search finds a record that has left the
\* collection, and such a record never comes back (a new record has a new
\* id).
C9_ClearEmptiesCollection ==
    [][/\ (last'.op = "delete_collection" /\ ~last'.raised) =>
            /\ Get(get_collection_info', "document_count", -1) = 0
            /\ SearchResults' = {<<>>}
       /\ (collection = {} /\ last'.op # "add_documents") =>
            collection' = {} /\ SearchResults' = {<<>>}
       /\ \A record \in collection \ collection' : ~Searchable(record)'
       /\ \A r \in collection' \ collection : r.id >= next_id]_vars

\* C9's case: delete_collection has completed on a collection that held records
C9_Witness ==
    /\ last.op = "delete_collection"
    /\ ~last.raised
    /\ next_id > 1
    /\ vector_store
    /\ collection = {}

\* C10, as claimed: an add_documents that fails (raises) leaves the
\* collection holding exactly the records it held before the call.
C10_FailedAddStoresNothing ==
    [][(last'.op = "add_documents" /\ last'.raised) => collection' = collection]_vars

\* the last operation was an add_documents that returned
Added == last.op = "add_documents" /\ ~last.raised

\* C11: an add_documents call that returns for a batch of n documents
\* returns n distinct record ids, the i-th id being the id of the record
\* stored for the i-th document, and the collection gains exactly these n
\* records; for an empty batch it returns no id, leaves the collection as it
\* is and makes no call to the embedding provider.
C11_AddReturnsIdsInOrder ==
    [][Added' =>
         LET documents == last'.documents
             doc_ids == last'.result
             n == Len(documents)
         IN  /\ Len(doc_ids) = n
             /\ \A i, j \in 1..n : i # j => doc_ids[i] # doc_ids[j]
             /\ collection' \ collection =
                    {[id |-> doc_ids[i], doc |-> documents[i]] : i \in 1..n}
             /\ collection \subseteq collection'
             /\ Cardinality(collection') = Cardinality(collection) + n
             /\ n = 0 => doc_ids = <<>> /\ collection' = collection /\ last'.calls = <<>>]_vars

\* C11's case: a batch of two documents, one with metadata and one without,
\* was added
C11_Witness ==
    /\ Added
    /\ Len(last.documents) = 2
    /\ DocMetadata(last.documents[1]) = {}
    /\ DocMetadata(last.documents[2]) # {}
    /\ Cardinality(collection) = Cardinality(last.before) + 2

\* the last operation was a search
Searched == last.op \in {"similarity_search", "similarity_search_with_score"}

\* the records of the collection that the filter of the last search admits
Matching == {record \in collection : MatchesFilter(record, last.filter_criteria)}

\* C12, as claimed: every search, for every k >= 1, returns at most k
\* results, most similar first; it returns fewer than k results only when
\* the collection holds fewer than k records that match the filter; and
\* every result matches the filter.
C12_SearchReturnsNearest ==
    Searched =>
        /\ Len(last.result) <= last.k
        /\ \A i, j \in 1..Len(last.result) :
               i < j => RankOf(last.ranking, last.result[i]) < RankOf(last.ranking, last.result[j])
        /\ Len(last.result) < last.k => Cardinality(Matching) < last.k
        /\ \A i \in 1..Len(last.result) : last.result[i] \in Matching

\* C13, as claimed: a search during which the embedding provider failed
\* ends in an error the caller sees: it raises, or returns something other
\* than the empty result of a search that found no record.
C13_SearchFailureSurfaced ==
    (Searched /\ last.error \in RetrievalErrors) => (last.raised \/ last.result # <<>>)

\* a file that is there, of a supported type, and that its loader can read
Loadable(file) ==
    file.exists /\ Lower(file.suffix) \in supported_extensions /\ file.readable

\* the chunks of the loadable files of a list, in the order of the list
RECURSIVE ChunksOfLoadable(_)
ChunksOfLoadable(files) ==
    IF files = <<>> THEN <<>>
    ELSE (IF Loadable(Head(files)) THEN split_documents(Head(files), 1, loader) ELSE <<>>)
         \o ChunksOfLoadable(Tail(files))

\* C14: load_multiple_files never raises, and returns the chunks of the
\* loadable files of its list, file after file in the order of the list: a
\* missing, unsupported or unreadable file adds nothing, and a list with no
\* loadable file gives an empty result.
C14_IngestionIsolatesFailures ==
    last.op = "load_multiple_files" =>
        /\ ~last.raised
        /\ last.result = ChunksOfLoadable(last.file_paths)
        /\ (\A i \in 1..Len(last.file_paths) : ~Loadable(last.file_paths[i]))
               => last.result = <<>>

\* C14's case: a list with an unsupported file before a file that loads
C14_Witness ==
    /\ last.op = "load_multiple_files"
    /\ Len(last.file_paths) = 2
    /\ last.file_paths[1].exists
    /\ Lower(last.file_paths[1].suffix) \notin supported_extensions
    /\ Loadable(last.file_paths[2])
    /\ last.result # <<>>

\* a file that is there and whose type is not supported
Unsupported(file) == file.exists /\ Lower(file.suffix) \notin supported_extensions

\* a file of a supported type that cannot be read or holds no text
EmptyOrUnreadable(file) ==
    /\ file.exists
    /\ Lower(file.suffix) \in supported_extensions
    /\ (~file.readable \/ \A p \in 1..Len(file.pages) : file.pages[p] = <<>>)

\* C15, as claimed: what load_single_document hands its caller for a file
\* of unsupported type (an error, or a value) differs from what it hands its
\* caller for an empty or unreadable file, which is an empty list of chunks.
C15_UnsupportedIsDistinct ==
    (last.op = "load_single_document" /\ Unsupported(last.file)) =>
        \A file \in Files :
            EmptyOrUnreadable(file) =>
                <<last.raised, last.result>>
                    # <<FALSE, load_single_document(file, loader).chunks>>

\* the last operation constructed a new VectorStoreManager
Restarted == last.op = "VectorStoreManager" /\ ~last.raised

\* C16: a VectorStoreManager constructed over the same directory and name
\* finds the collection as it was left: the same records, counted by
\* get_collection_info and each of them found by a search; over no records
\* it gives an empty collection; and its construction raises only when the
\* store itself fails.
C16_CollectionSurvivesRestart ==
    [][/\ Restarted' =>
            /\ collection' = collection
            /\ Get(get_collection_info', "document_count", -1) = Cardinality(collection)
            /\ \A record \in collection : Searchable(record)'
            /\ collection = {} => collection' = {}
       /\ (last'.op = "VectorStoreManager" /\ last'.raised) =>
            last'.store = "initialize_failed"]_vars

\* C16's case: a manager constructed anew after add_documents had stored a
\* record (one with an id that no persisted collection of the run starts with)
C16_Witness ==
    /\ Restarted
    /\ \E record \in collection : record.id > MaxDocs

\* the last operation was clear_history
Cleared == last.op = "clear_history"

\* C17: clear_history never raises and leaves the conversation history and
\* the memory empty (the memory summary counts no turn and no message, and
\* the memory offers the chain no history); a clear_history right after a
\* clear_history changes nothing; and clear_history leaves temperature,
\* max_tokens, the chat model, the memory window and the retriever as they
\* were.
C17_ClearHistoryIdempotent ==
    [][Cleared' =>
         /\ ~last'.raised
         /\ conversation_history' = <<>>
         /\ chat_memory' = <<>>
         /\ load_memory_variables(chat_memory', memory_window') = <<>>
         /\ get_memory_summary'.total_conversations = 0
         /\ get_memory_summary'.current_memory_items = 0
         /\ Cleared => UNCHANGED <<qa_vars, llm_vars>>
         /\ UNCHANGED <<temperature, max_tokens, llm, memory_window, retriever>>]_vars

\* C17's case: clear_history has cleared a history of two turns of a manager
\* whose temperature had been changed
C17_Witness ==
    /\ Cleared
    /\ last.cleared = 2
    /\ temperature # DefaultTemperature

\* the last operation was update_chain_parameters
Updated == last.op = "update_chain_parameters"

\* C18: update_chain_parameters sets temperature and max_tokens to the
\* arguments given and keeps the value of an argument that is None; it
\* leaves the conversation history, the memory, the memory window and the
\* retriever as they were; and the chat calls of a question are made with
\* the temperature and max_tokens the manager holds at the time, so with
\* the values of the latest update.
C18_ParametersTakeEffect ==
    [][/\ Updated' =>
            /\ ~last'.raised
            /\ temperature' = IF last'.temperature # <<>> THEN last'.temperature[1]
                              ELSE temperature
            /\ max_tokens' = IF last'.max_tokens # <<>> THEN last'.max_tokens[1]
                             ELSE max_tokens
            /\ UNCHANGED qa_vars
       /\ (Asked' /\ \E i \in 1..Len(last'.calls) : last'.calls[i].to = "chat") =>
            last'.llm = ChatOpenAI(temperature, max_tokens)]_vars

\* C18's case: a question answered after an update that changed the
\* temperature and kept max_tokens
C18_Witness ==
    /\ Answered
    /\ last.llm.temperature # DefaultTemperature
    /\ last.llm.max_tokens = DefaultMaxTokens
    /\ last.calls[Len(last.calls)].to = "chat"

\* the last operation loaded a file with a loader whose overlap is smaller
\* than its chunk size
Chunked == last.op = "load_single_document" /\ loader.chunk_overlap < loader.chunk_size

\* C19: every chunk that load_single_document returns, for any file and any
\* chunk_overlap smaller than chunk_size, has at most chunk_size characters.
C19_ChunksWithinSize ==
    Chunked =>
        \A i \in 1..Len(last.result) :
            Len(last.result[i].page_content) <= loader.chunk_size

\* C19's case: a text longer than chunk_size was cut into several chunks,
\* one of them of exactly chunk_size characters
C19_Witness ==
    /\ Chunked
    /\ Len(last.result) >= 2
    /\ Len(last.file.pages[1]) > loader.chunk_size
    /\ \E i \in 1..Len(last.result) :
           Len(last.result[i].page_content) = loader.chunk_size

\* the number of characters of the source that two chunks of a page share
Shared(chunk, next) ==
    IF chunk.last >= next.first THEN chunk.last - next.first + 1 ELSE 0

\* C20: of the chunks that load_single_document returns, for any file and
\* any chunk_overlap smaller than chunk_size, each is the text of its page
\* from its first to its last position; chunks come page after page and,
\* within a page, in the order of the text (a chunk neither starts nor ends
\* before the chunk in front of it; the strip of a chunk can make two chunks
\* start or end at the same character); and two consecutive chunks of a
\* page share at most chunk_overlap characters of it.
C20_OverlapWithinBound ==
    Chunked =>
        /\ \A i \in 1..Len(last.result) :
               LET chunk == last.result[i]
               IN  chunk.page_content
                       = SubSeq(last.file.pages[chunk.page], chunk.first, chunk.last)
        /\ \A i \in 1..(Len(last.result) - 1) :
               LET chunk == last.result[i]
                   next == last.result[i + 1]
               IN  /\ chunk.page <= next.page
                   /\ chunk.page = next.page =>
                          /\ chunk.first <= next.first
                          /\ chunk.last <= next.last
                          /\ Shared(chunk, next) <= loader.chunk_overlap

\* C20's case: two consecutive chunks that share exactly chunk_overlap
\* characters, at least one
C20_Witness ==
    /\ Chunked
    /\ loader.chunk_overlap >= 1
    /\ \E i \in 1..(Len(last.result) - 1) :
           /\ last.result[i].page = last.result[i + 1].page
           /\ Shared(last.result[i], last.result[i + 1]) = loader.chunk_overlap

\* the operation described by l called the provider for this purpose
Called(l, purpose) == \E i \in 1..Len(l.calls) : l.calls[i].purpose = purpose

\* C21: a non-empty question goes through its stages in order and ends in
\* exactly one of DONE and FAILED: retrieval is entered first (after at most
\* the condensing of the question); the chat provider is asked for the answer
\* only as the last call and right after a retrieval that succeeded, and
\* the prompt is composed only then; no call follows a failed call; the
\* result is either success=True or a failure with an error, never both;
\* and a turn is appended to the memory and the conversation history when the
\* question ends in DONE, and only then.
C21_StageOrder ==
    [][(last'.op = "ask_question" /\ ~OnlyWhitespace(last'.question)) =>
         LET calls == last'.calls
             n == Len(calls)
             succeeded == Get(last'.result, "success", FALSE)
             failed == Get(last'.result, "error", NoError) # NoError
         IN  /\ n >= 1
             /\ \A i \in 1..n :
                    calls[i].purpose = "retrieve" =>
                        \A j \in 1..(i - 1) : calls[j].purpose = "condense"
             /\ \A i \in 1..n :
                    calls[i].purpose = "answer" =>
                        /\ i = n
                        /\ i > 1
                        /\ calls[i - 1] = Call("index", "retrieve", NoError)
             /\ last'.prompt # <<>> => Called(last', "answer")
             /\ \A i \in 1..(n - 1) : calls[i].error = NoError
             /\ ~last'.raised
             /\ succeeded # failed
             /\ succeeded = Done(last')
             /\ Done(last') =>
                    /\ Len(conversation_history') = Len(conversation_history) + 1
                    /\ Len(chat_memory') = Len(chat_memory) + 2
             /\ ~Done(last') => UNCHANGED <<chat_memory, conversation_history>>]_vars

\* C21's case: a question with chat history that went through condensing,
\* retrieval and generation to DONE
C21_Witness ==
    /\ Answered
    /\ last.calls = <<Call("chat", "condense", NoError),
                      Call("index", "retrieve", NoError),
                      Call("chat", "answer", NoError)>>
    /\ last.retrieved # <<>>

\* the parts of a prompt that are of these kinds, in the prompt's order
PartsOf(prompt, kinds) ==
    LET OfKinds(part) == part.kind \in kinds
    IN  SelectSeq(prompt, OfKinds)

\* C22: the prompt with which the chat provider is asked for the answer of a
\* question holds, in this order, the fixed instruction block of
\* _create_custom_prompt, the retrieved texts, the recent conversation turns
\* (oldest first) and the current question.
C22_PromptComposition ==
    (Asked /\ Called(last, "answer")) =>
        LET composed == PartsOf(last.prompt,
                                {"instructions", "context", "chat_history", "question"})
        IN  /\ Len(composed) = 4
            /\ composed[1] = Part("instructions", "custom")
            /\ composed[2].kind = "context"
            /\ Answered =>
                   composed[2].content
                       = [i \in 1..Len(last.retrieved) |-> last.retrieved[i].doc]
            /\ composed[3] = Part("chat_history", last.chat_history)
            /\ composed[4] = Part("question", last.question)

\* C23: a question calls the index and the chat provider at most once for
\* each purpose (condensing, retrieval, answer); when one of these calls
\* fails no call follows it, and ask_question returns a failure result with
\* the failed call's error.
C23_NoRetry ==
    Asked =>
        LET calls == last.calls
            n == Len(calls)
        IN  /\ \A i, j \in 1..n : calls[i].purpose = calls[j].purpose => i = j
            /\ \A i \in 1..n :
                   calls[i].error # NoError =>
                       /\ i = n
                       /\ ~last.raised
                       /\ ~Get(last.result, "success", FALSE)
                       /\ Get(last.result, "error", NoError) = calls[i].error

\* C23's case: the chat provider fails on the answer of a question, after
\* two calls that succeeded
C23_Witness ==
    /\ Asked
    /\ Len(last.calls) = 3
    /\ last.calls[3] = Call("chat", "answer", "rate_limit")
    /\ last.result.error = "rate_limit"

C26_HistoriesConsistent ==
    session_state.qa_chain_manager =>
        /\ Len(session_state.conversation_history) = Len(conversation_history)
        /\ \A i \in 1..Len(conversation_history) :
               session_state.conversation_history[i].question
                   = conversation_history[i].question

\* the last run ingested documents
Ingestion(l) == l.op \in {"process_uploaded_files", "process_directory"}

\* C27: a question is passed to the orchestrator only in a run in which
\* the key is configured and documents_loaded is true; documents_loaded is
\* true only if an ingestion of the session has added a chunk to the
\* collection since the collection was last destroyed; and an ingestion that
\* fails or finds no chunk leaves documents_loaded as it was.
C27_QuestionsNeedDocuments ==
    [][/\ last'.op = "process_question" =>
            /\ session_state'.api_key_configured
            /\ session_state.documents_loaded
            /\ session_state'.documents_loaded
       /\ session_state'.documents_loaded => chunks_added'
       /\ (Ingestion(last') /\ last'.outcome # "loaded") =>
            session_state'.documents_loaded = session_state.documents_loaded]_vars



\* a session is between the destruction of the collection and its
\* reinitialisation by delete_collection
Clearing(session) == procs[session].pc = "deleted"

\* no session is inside an operation
Quiescent == \A session \in Sessions : procs[session].pc = "idle"

\* the collections that the completed adds and clears leave when they are
\* executed one after another, in any order
SequentialOutcomes ==
    IF completed.cleared
    THEN {UNION chosen : chosen \in SUBSET completed.adds}
    ELSE {completed.initial \cup UNION completed.adds}

\* whenever no operation is in progress the collection is one that the
\* completed adds and clears leave in some sequential order
SequentialOutcomeWhenQuiescent == Quiescent => collection \in SequentialOutcomes

\* C24: structural mutations of a collection that sessions share are
\* serialized: no upsert of an add and no query of a search executes while
\* another session is between the destruction and the reinitialisation of
\* its clear, and whenever no operation is in progress the collection is
\* one that the completed adds and clears leave in some sequential order
C24_MutationsSerialized ==
    [][/\ last'.op \in {"add_documents", "similarity_search"}
          /\ last'.step \in {"upsert", "query"}
          => \A other \in Sessions \ {last'.session} : ~Clearing(other)
       /\ SequentialOutcomeWhenQuiescent']_vars


====
